---- MODULE Spec2Model ----
(***************************************************************************)
(* SiteAuditPro: the audit pipeline (app/main.py), the page analysis and   *)
(* scoring (app/utils/auditor.py) and the suggestion engine                *)
(* (app/utils/ai_suggestions.py, app/routers/ai.py).                       *)
(*                                                                         *)
(* Conventions.  A Python dict is a function with a string domain; d.get   *)
(* is Get.  A string whose content is never inspected is represented by    *)
(* its length.  A size in KB, which the code rounds to two decimals, is    *)
(* an integer number of hundredths of a KB.                                *)
(***************************************************************************)
EXTENDS Integers, Sequences, FiniteSets, TLC

VARIABLES
    web,            \* analyze_url: the page and network of this run
    pc,             \* where the call under study is; "serving" in the service
    ret,            \* analyze_url: what the call returned or raised
    loc,            \* analyze_url: the local variables of the run
    futures,        \* analyze_url: the futures of the link check, by position
    probed,         \* analyze_url: the HEAD requests issued so far
    order,          \* analyze_url: the futures in the order as_completed gave them
    audit_data,     \* generate_ai_suggestions: the feature set it is given
    service,        \* generate_ai_suggestions: the external service
    out,            \* generate_ai_suggestions: what the call returned or raised
    db,             \* the audit table: row i is the Audit with id i
    tasks,          \* run_analysis_background: the run dispatched for each audit
    attached,       \* per audit, the first suggestion set the code attached
    served          \* the last response to a request for suggestions

analysis_vars == <<web, ret, loc, futures, probed, order>>
suggest_vars == <<audit_data, service, out>>
pipeline_vars == <<db, tasks, attached, served>>
vars == <<pc, analysis_vars, suggest_vars, pipeline_vars>>

NoValue == "None"

\* dict.get(key, default)
Get(d, key, default) == IF key \in DOMAIN d THEN d[key] ELSE default

Min(a, b) == IF a <= b THEN a ELSE b
Max(a, b) == IF a >= b THEN a ELSE b

\* n KB in hundredths of a KB
KB(n) == n * 100

(***************************************************************************)
(* Scorer: app/utils/auditor.py                                            *)
(***************************************************************************)
SecurityHeaderNames ==
    {"Content-Security-Policy", "X-Frame-Options", "X-Content-Type-Options",
     "Referrer-Policy", "Strict-Transport-Security"}

\* the title term of calculate_seo_score
SeoTitleTerm(d) ==
    IF Get(d, "has_title", FALSE)
    THEN LET title_len == Get(d, "title", 0)
         IN  IF 30 <= title_len /\ title_len <= 60 THEN 20
             ELSE IF (20 <= title_len /\ title_len < 30)
                     \/ (60 < title_len /\ title_len <= 70) THEN 10
             ELSE 5
    ELSE 0

\* the meta description term of calculate_seo_score
SeoMetaTerm(d) ==
    IF Get(d, "has_meta_description", FALSE)
    THEN LET meta_len == Get(d, "meta_description", 0)
         IN  IF 120 <= meta_len /\ meta_len <= 160 THEN 15
             ELSE IF (100 <= meta_len /\ meta_len < 120)
                     \/ (160 < meta_len /\ meta_len <= 180) THEN 8
             ELSE 3
    ELSE 0

\* full marks for any page with an h1
SeoH1TermAtLeastOne(d) ==
    LET h1_count == Get(d, "h1_count", 0)
    IN  IF h1_count >= 1 THEN 15 ELSE 0

\* the h1 term of calculate_seo_score
SeoH1Term(d) ==
    LET h1_count == Get(d, "h1_count", 0)
    IN  IF h1_count = 1 THEN 15 ELSE IF h1_count > 1 THEN 5 ELSE 0

\* full marks for a page without images
SeoAltTermFullWithoutImages(d) ==
    LET total_images == Get(d, "img_count", 0)
        missing_alt  == Get(d, "missing_alt", 0)
    IN  IF total_images > 0
        THEN (15 * (total_images - missing_alt)) \div total_images
        ELSE 15

\* the alt-text term: int(15 * ((total - missing) / total)); the truncation
\* of the float product equals the integer quotient for every total < 400
SeoAltTerm(d) ==
    LET total_images == Get(d, "img_count", 0)
        missing_alt  == Get(d, "missing_alt", 0)
    IN  IF total_images > 0
        THEN (15 * (total_images - missing_alt)) \div total_images
        ELSE 0

SeoPresenceTerms(d) ==
      (IF Get(d, "canonical_present", FALSE) THEN 10 ELSE 0)
    + (IF Get(d, "robots_meta", FALSE) THEN 10 ELSE 0)
    + (IF Get(d, "sitemap_available", FALSE) THEN 10 ELSE 0)
    + (IF Get(d, "robots_available", FALSE) THEN 5 ELSE 0)

\* min(score, max_score)
SeoCap(s) == Min(s, 100)

calculate_seo_score(d) ==
    SeoCap(SeoTitleTerm(d) + SeoMetaTerm(d) + SeoH1Term(d) + SeoAltTerm(d)
           + SeoPresenceTerms(d))

\* thresholds that include their own value
PagePenaltyInclusive(d) ==
    LET page_size_kb == Get(d, "page_size_kb", 0)
    IN  IF page_size_kb >= KB(2000) THEN 30
        ELSE IF page_size_kb >= KB(1000) THEN 20
        ELSE IF page_size_kb >= KB(500) THEN 10
        ELSE 0

PagePenalty(d) ==
    LET page_size_kb == Get(d, "page_size_kb", 0)
    IN  IF page_size_kb > KB(2000) THEN 30
        ELSE IF page_size_kb > KB(1000) THEN 20
        ELSE IF page_size_kb > KB(500) THEN 10
        ELSE 0

\* the two lower deductions exchanged
JsPenaltySwapped(d) ==
    LET js_size_kb == Get(d, "js_size_kb", 0)
    IN  IF js_size_kb > KB(500) THEN 25
        ELSE IF js_size_kb > KB(300) THEN 8
        ELSE IF js_size_kb > KB(200) THEN 15
        ELSE 0

JsPenalty(d) ==
    LET js_size_kb == Get(d, "js_size_kb", 0)
    IN  IF js_size_kb > KB(500) THEN 25
        ELSE IF js_size_kb > KB(300) THEN 15
        ELSE IF js_size_kb > KB(200) THEN 8
        ELSE 0

CssPenalty(d) ==
    LET css_size_kb == Get(d, "css_size_kb", 0)
    IN  IF css_size_kb > KB(200) THEN 20
        ELSE IF css_size_kb > KB(100) THEN 12
        ELSE IF css_size_kb > KB(50) THEN 6
        ELSE 0

\* a largest-image deduction that lets the four deductions reach 100
ImagePenaltyHeavy(d) ==
    LET largest_image_kb == Get(d, "largest_image_kb", 0)
    IN  IF largest_image_kb > KB(300) THEN 25
        ELSE IF largest_image_kb > KB(200) THEN 10
        ELSE IF largest_image_kb > KB(100) THEN 5
        ELSE 0

ImagePenalty(d) ==
    LET largest_image_kb == Get(d, "largest_image_kb", 0)
    IN  IF largest_image_kb > KB(300) THEN 15
        ELSE IF largest_image_kb > KB(200) THEN 10
        ELSE IF largest_image_kb > KB(100) THEN 5
        ELSE 0

\* the penalties added to the score instead of taken from it
calculate_performance_score_added(d) ==
    Max(100 + PagePenalty(d) + JsPenalty(d) + CssPenalty(d) + ImagePenalty(d), 0)

calculate_performance_score(d) ==
    Max(100 - PagePenalty(d) - JsPenalty(d) - CssPenalty(d) - ImagePenalty(d), 0)

\* headers.get(name) on the security_headers mapping
HeaderPresent(d, name) == Get(Get(d, "security_headers", <<>>), name, FALSE)

\* the points of one present header
HeaderPoints(d, name) == IF HeaderPresent(d, name) THEN 20 ELSE 0

\* Referrer-Policy left out
calculate_security_score_four(d) ==
      HeaderPoints(d, "Content-Security-Policy")
    + HeaderPoints(d, "X-Frame-Options")
    + HeaderPoints(d, "X-Content-Type-Options")
    + HeaderPoints(d, "Strict-Transport-Security")

calculate_security_score(d) ==
      HeaderPoints(d, "Content-Security-Policy")
    + HeaderPoints(d, "X-Frame-Options")
    + HeaderPoints(d, "X-Content-Type-Options")
    + HeaderPoints(d, "Referrer-Policy")
    + HeaderPoints(d, "Strict-Transport-Security")

\* the performance score taken before the page size is known
WithScoresUnsized(result) ==
    [k \in DOMAIN result \cup {"score_seo", "score_performance", "score_security"} |->
        IF k = "score_seo" THEN calculate_seo_score(result)
        ELSE IF k = "score_performance"
        THEN calculate_performance_score(
                [j \in DOMAIN result \ {"page_size_kb"} |-> result[j]])
        ELSE IF k = "score_security" THEN calculate_security_score(result)
        ELSE result[k]]

\* analyze_url, lines 395-398: the three scores added to the result
WithScores(result) ==
    [k \in DOMAIN result \cup {"score_seo", "score_performance", "score_security"} |->
        IF k = "score_seo" THEN calculate_seo_score(result)
        ELSE IF k = "score_performance" THEN calculate_performance_score(result)
        ELSE IF k = "score_security" THEN calculate_security_score(result)
        ELSE result[k]]

(***************************************************************************)
(* The fetched page and the network, as one run of analyze_url sees them.  *)
(*   fetch        "ok", or the requests exception of the primary GET       *)
(*                (raise_for_status included)                              *)
(*   fault        a non-request exception raised while the page is parsed  *)
(*   content      len(response.content), bytes                             *)
(*   title        [tag, len]: tag "absent" (no <title>), "nostring"        *)
(*                (title_tag.string is None) or "text", whose text has     *)
(*                length len after strip()                                 *)
(*   meta         [tag, len]: tag "absent" or "present", whose content     *)
(*                has length len after strip()                             *)
(*   images       sequence of [alt, src, head]: alt non-empty, src         *)
(*                non-empty, outcome of the HEAD request for its size      *)
(*   scripts, styles   sequences of [src, head] of the tags found          *)
(*   sitemap, robots   outcome of the two HEAD requests                    *)
(*   headers      the security headers present in the response             *)
(*   anchors      the <a href> tags in document order: the absolute,       *)
(*                fragment-stripped URL each resolves to, 0 for href=""    *)
(*   link_head    outcome of the HEAD request per URL                      *)
(* A HEAD outcome is [raises, status_code, length]: length is the          *)
(* Content-Length in bytes, -1 when the header is absent, -2 when it is    *)
(* no integer (int() raises ValueError).                                   *)
(***************************************************************************)
HeadOutcome(raises, status_code, length) ==
    [raises |-> raises, status_code |-> status_code, length |-> length]

HeadFails == HeadOutcome(TRUE, 0, -1)

\* round(bytes / 1024, 2): correctly rounded, ties to even
RoundKB(bytes) ==
    LET q == (bytes * 100) \div 1024
        r == (bytes * 100) % 1024
    IN  IF r > 512 \/ (r = 512 /\ q % 2 = 1) THEN q + 1 ELSE q

\* line 182: title_tag.string.strip() if title_tag and title_tag.string else None
TitleIsNone(page) == page.title.tag \in {"absent", "nostring"}
\* line 183: has_title = title is not None
HasTitle(page) == ~TitleIsNone(page)
\* line 184: len(title) if title else 0
TitleLength(page) == IF TitleIsNone(page) THEN 0 ELSE page.title.len
\* line 360: title or "Not found", as the length of the stored string
StoredTitle(page) == IF TitleLength(page) = 0 THEN 9 ELSE TitleLength(page)

\* lines 188-194
MetaIsNone(page) == page.meta.tag = "absent"
MetaLength(page) == IF MetaIsNone(page) THEN 0 ELSE page.meta.len
HasMetaDescription(page) == ~MetaIsNone(page) /\ MetaLength(page) > 0
\* line 364: meta_description or "Not found"
StoredMeta(page) == IF MetaLength(page) = 0 THEN 9 ELSE MetaLength(page)

\* lines 185 and 195
Band(length, lo, hi) ==
    IF lo <= length /\ length <= hi THEN "ideal"
    ELSE IF length < lo THEN "too short" ELSE "too long"

\* lines 203-205
MissingAlt(page) ==
    Cardinality({i \in DOMAIN page.images : ~page.images[i].alt})

\* lines 216-222 and 225-231: try: head(...).status_code == 200 except: pass
ProbeAvailable(head) == IF head.raises THEN FALSE ELSE head.status_code = 200

\* lines 246-251, 266-271: the bytes one script or stylesheet adds to the sum;
\* an exception of the request or of int() leaves the sum as it was
ProbeBytes(head) ==
    IF head.raises THEN 0
    ELSE IF head.length = -1 THEN 0
    ELSE IF head.length = -2 THEN 0
    ELSE head.length

\* lines 241-251 for scripts up to index n (tags with an empty src skipped)
RECURSIVE AssetBytes(_, _)
AssetBytes(assets, n) ==
    IF n = 0 THEN 0
    ELSE AssetBytes(assets, n - 1)
         + (IF assets[n].src THEN ProbeBytes(assets[n].head) ELSE 0)

\* js_files / css_files: the tags with a non-empty src
AssetCount(assets) == Cardinality({i \in DOMAIN assets : assets[i].src})

\* lines 277-289: largest image so far, in bytes, after image n
RECURSIVE LargestImageBytes(_, _)
LargestImageBytes(images, n) ==
    IF n = 0 THEN 0
    ELSE LET before == LargestImageBytes(images, n - 1)
             size   == IF images[n].src THEN ProbeBytes(images[n].head) ELSE 0
         IN  IF size > before THEN size ELSE before

\* the upper limit of the working range taken inclusive
check_link_status_inclusive(head) ==
    IF head.raises THEN FALSE
    ELSE 200 <= head.status_code /\ head.status_code <= 400

\* lines 139-145
check_link_status(head) ==
    IF head.raises THEN FALSE
    ELSE 200 <= head.status_code /\ head.status_code < 400

\* line 315: all_links[:40]
LinkLimit == 40

\* the limit applied to the URLs kept instead of to the anchors read
RECURSIVE LinkUrlsCappedLate(_, _)
LinkUrlsCappedLate(anchors, n) ==
    IF n = 0 THEN <<>>
    ELSE LET before == LinkUrlsCappedLate(anchors, n - 1)
             u      == anchors[n]
         IN  IF Len(before) >= 40 \/ u = 0 THEN before
             ELSE IF \E j \in DOMAIN before : before[j] = u THEN before
             ELSE Append(before, u)

\* lines 313-322: link_urls after the first n anchors
RECURSIVE LinkUrls(_, _)
LinkUrls(anchors, n) ==
    IF n = 0 THEN <<>>
    ELSE LET before == LinkUrls(anchors, n - 1)
             u      == anchors[n]
         IN  IF n > LinkLimit \/ u = 0 THEN before
             ELSE IF \E j \in DOMAIN before : before[j] = u THEN before
             ELSE Append(before, u)

link_urls(page) == LinkUrls(page.anchors, Len(page.anchors))

\* lines 325-335 once every future has been consumed
WorkingCount(page) ==
    Cardinality({j \in DOMAIN link_urls(page) :
                    check_link_status(page.link_head[link_urls(page)[j]])})
BrokenCount(page) ==
    Cardinality({j \in DOMAIN link_urls(page) :
                    ~check_link_status(page.link_head[link_urls(page)[j]])})

\* lines 302-308
SecurityHeaders(page) == [h \in SecurityHeaderNames |-> h \in page.headers]

\* the locals before the run has set them
NoLocals ==
    [sitemap_available |-> FALSE, robots_available |-> FALSE,
     js_bytes |-> 0, css_bytes |-> 0, largest_bytes |-> 0, i |-> 1,
     link_urls |-> <<>>, working_links |-> 0, broken_links |-> 0,
     url |-> ""]

\* lines 358-393: the result dict from the locals l the run has gathered
BuildResult(page, l) ==
    [title                |-> StoredTitle(page),
     has_title            |-> HasTitle(page),
     title_length         |-> TitleLength(page),
     title_status         |-> Band(TitleLength(page), 30, 60),
     meta_description     |-> StoredMeta(page),
     has_meta_description |-> HasMetaDescription(page),
     meta_length          |-> MetaLength(page),
     meta_status          |-> Band(MetaLength(page), 120, 160),
     h1_count             |-> page.h1_count,
     h2_count             |-> page.h2_count,
     img_count            |-> Len(page.images),
     missing_alt          |-> MissingAlt(page),
     canonical_present    |-> page.canonical,
     robots_meta          |-> page.robots_meta,
     sitemap_available    |-> l.sitemap_available,
     robots_available     |-> l.robots_available,
     page_size_kb         |-> RoundKB(page.content),
     js_count             |-> AssetCount(page.scripts),
     js_size_kb           |-> RoundKB(l.js_bytes),
     css_count            |-> AssetCount(page.styles),
     css_size_kb          |-> RoundKB(l.css_bytes),
     largest_image_kb     |-> RoundKB(l.largest_bytes),
     security_headers     |-> SecurityHeaders(page),
     working_links        |-> l.working_links,
     broken_links         |-> l.broken_links]

\* what a call of analyze_url returns or raises
Returned(result) == [raised |-> FALSE, result |-> result, error |-> ""]
Raised(error)    == [raised |-> TRUE, result |-> <<>>, error |-> error]

\* lines 402-405: the exception the caller sees
FetchError(page) == Raised("Failed to fetch URL: " \o page.fetch)
AnalysisError    == Raised("Error analyzing URL")

\* analyze_url as a function of the page and the network
analyze_url(page) ==
    IF page.fetch # "ok" THEN FetchError(page)
    ELSE IF page.fault THEN AnalysisError
    ELSE Returned(WithScores(BuildResult(page,
            [sitemap_available |-> ProbeAvailable(page.sitemap),
             robots_available  |-> ProbeAvailable(page.robots),
             js_bytes          |-> AssetBytes(page.scripts, Len(page.scripts)),
             css_bytes         |-> AssetBytes(page.styles, Len(page.styles)),
             largest_bytes     |-> LargestImageBytes(page.images, Len(page.images)),
             working_links     |-> WorkingCount(page),
             broken_links      |-> BrokenCount(page)])))

(***************************************************************************)
(* Suggestion engine: app/utils/ai_suggestions.py                          *)
(*                                                                         *)
(* A suggestion is [issue, suggestion]; the texts are kept short.  The     *)
(* external service is openai = [package, api_key, call, body, cats]:      *)
(*   package   the import of line 5-8 succeeded                            *)
(*   api_key   OPENAI_API_KEY is set                                       *)
(*   call      "ok", or "raises": chat.completions.create raised           *)
(*   body      "dict" (a JSON object), "notdict" (JSON, no object) or      *)
(*             "nonjson"                                                   *)
(*   cats      per category key of the object, [kind, items]: kind is      *)
(*             "missing" (no such key), "null" (a value that cannot be     *)
(*             iterated) or "list"; an item is [type, issue, suggestion]   *)
(*             with type "dict", "str" (text in issue) or "other".  A      *)
(*             string or object given for the list is iterated by Python   *)
(*             as its characters or keys, a list of "str" items.           *)
(***************************************************************************)
Categories ==
    <<"seo", "performance", "security", "metadata", "content", "schema", "general">>
CategorySet == {Categories[i] : i \in DOMAIN Categories}

Pair(issue, suggestion) == [issue |-> issue, suggestion |-> suggestion]

\* "not audit_data": None or the empty dict
IsEmpty(d) == DOMAIN d = {}

\* every rule of the seo category giving an item on each of its branches
FallbackSeoOnePerRule(d) ==
    <<Pair("Title tag", "Add a descriptive title tag"),
      Pair("Meta description", "Create a compelling meta description"),
      Pair("H1 heading tag", "Use a single H1 tag"),
      Pair("Image alt text", "Add descriptive alt text")>>

\* lines 277-314
FallbackSeo(d) ==
    <<IF ~Get(d, "has_title", FALSE) \/ Get(d, "title_length", 0) < 30
      THEN Pair("Title tag is missing or too short", "Add a descriptive title tag")
      ELSE Pair("Enhance title tag strategy for better CTR", "Consider A/B testing"),
      IF ~Get(d, "has_meta_description", FALSE) \/ Get(d, "meta_length", 0) < 120
      THEN Pair("Meta description is missing or too short", "Create a compelling meta description")
      ELSE Pair("Optimize meta description for better engagement", "Test different meta descriptions")>>
    \o (IF Get(d, "h1_count", 0) = 0
        THEN <<Pair("Missing H1 heading tag", "Add a single H1 tag")>>
        ELSE IF Get(d, "h1_count", 0) > 1
        THEN <<Pair("Multiple H1 tags detected", "Use only one H1 tag per page")>>
        ELSE <<>>)
    \o (IF Get(d, "missing_alt", 0) > 0
        THEN <<Pair("images missing alt text", "Add descriptive alt text")>>
        ELSE <<>>)

\* lines 317-351
FallbackPerformance(d) ==
    <<IF Get(d, "page_size_kb", 0) > KB(500)
      THEN Pair("Page size is large", "Optimize page size")
      ELSE Pair("Further optimize page load speed", "Implement advanced caching"),
      IF Get(d, "js_size_kb", 0) > KB(200)
      THEN Pair("JavaScript bundle is large", "Code-split JavaScript bundles")
      ELSE Pair("Optimize JavaScript delivery", "Use async/defer"),
      IF Get(d, "largest_image_kb", 0) > KB(300)
      THEN Pair("Large image detected", "Compress images")
      ELSE Pair("Enhance image optimization strategy", "Implement next-gen image formats")>>

\* lines 354-381
FallbackSecurity(d) ==
    <<IF ~HeaderPresent(d, "Content-Security-Policy")
      THEN Pair("Missing Content-Security-Policy header", "Implement CSP header")
      ELSE Pair("Enhance Content-Security-Policy", "Review and tighten your CSP policy")>>
    \o (IF ~HeaderPresent(d, "X-Frame-Options")
           /\ ~HeaderPresent(d, "Content-Security-Policy")
        THEN <<Pair("Missing X-Frame-Options header", "Add X-Frame-Options")>>
        ELSE <<>>)
    \o <<IF ~HeaderPresent(d, "Strict-Transport-Security")
         THEN Pair("Missing HSTS header", "Implement Strict-Transport-Security")
         ELSE Pair("Strengthen HSTS configuration", "Ensure HSTS includes includeSubDomains")>>

\* lines 384-398
FallbackMetadata(d) ==
    <<IF ~Get(d, "canonical_present", FALSE)
      THEN Pair("Missing canonical tag", "Add a canonical tag")
      ELSE Pair("Enhance canonical tag strategy", "Review canonical tags"),
      Pair("Add Open Graph and Twitter Card metadata", "Implement og:title")>>

\* lines 401-415
FallbackContent(d) ==
    <<IF Get(d, "h2_count", 0) < 3
      THEN Pair("Limited heading structure", "Add more H2 and H3 headings")
      ELSE Pair("Enhance content structure", "Review heading hierarchy"),
      Pair("Improve content depth and quality", "Create comprehensive content")>>

\* lines 418-426
FallbackSchema(d) ==
    <<Pair("Missing structured data (Schema.org)", "Implement JSON-LD structured data"),
      Pair("Enhance structured data implementation", "Add FAQ schema")>>

\* lines 429-448
FallbackGeneral(d) ==
    <<IF ~Get(d, "sitemap_available", FALSE)
      THEN Pair("Sitemap.xml not found", "Create and submit an XML sitemap")
      ELSE Pair("Optimize sitemap strategy", "Ensure your sitemap is comprehensive"),
      Pair("Improve mobile responsiveness", "Test your site on various mobile devices"),
      Pair("Enhance accessibility (WCAG compliance)", "Improve accessibility")>>

\* lines 256-450
_generate_fallback_suggestions(d) ==
    [seo |-> FallbackSeo(d), performance |-> FallbackPerformance(d),
     security |-> FallbackSecurity(d), metadata |-> FallbackMetadata(d),
     content |-> FallbackContent(d), schema |-> FallbackSchema(d),
     general |-> FallbackGeneral(d)]

\* a string kept as an issue with no suggestion
RECURSIVE NormalizeItemsIssueOnly(_, _)
NormalizeItemsIssueOnly(items, n) ==
    IF n = 0 THEN <<>>
    ELSE LET before == NormalizeItemsIssueOnly(items, n - 1)
             item   == items[n]
         IN  IF item.type = "dict"
             THEN Append(before, Pair(item.issue, item.suggestion))
             ELSE IF item.type = "str"
             THEN Append(before, Pair(item.issue, ""))
             ELSE before

\* lines 473-492: dicts completed, strings doubled, anything else dropped
RECURSIVE NormalizeItems(_, _)
NormalizeItems(items, n) ==
    IF n = 0 THEN <<>>
    ELSE LET before == NormalizeItems(items, n - 1)
             item   == items[n]
         IN  IF item.type = "dict"
             THEN Append(before, Pair(item.issue, item.suggestion))
             ELSE IF item.type = "str"
             THEN Append(before, Pair(item.issue, item.issue))
             ELSE before

\* suggestions.get(category, []) handed to _normalize_suggestions
_normalize_suggestions(raw) ==
    IF raw.kind = "missing" THEN <<>> ELSE NormalizeItems(raw.items, Len(raw.items))

\* the supplement without the break of lines 467-468
RECURSIVE SupplementWithoutBreak(_, _, _)
SupplementWithoutBreak(list, fallback_items, n) ==
    IF n = 0 THEN list
    ELSE LET before == SupplementWithoutBreak(list, fallback_items, n - 1)
             item   == fallback_items[n]
         IN  IF \E k \in DOMAIN before : before[k] = item THEN before
             ELSE Append(before, item)

\* lines 463-468: fallback items not yet present appended to a list until
\* it has two entries; n fallback items have been looked at
RECURSIVE Supplement(_, _, _)
Supplement(list, fallback_items, n) ==
    IF n = 0 THEN list
    ELSE LET before == Supplement(list, fallback_items, n - 1)
             item   == fallback_items[n]
         IN  IF Len(before) >= 2 THEN before
             ELSE IF \E k \in DOMAIN before : before[k] = item THEN before
             ELSE Append(before, item)

\* the supplement left out
_ensure_minimum_suggestions_skipped(res, d) == res

\* lines 453-470
_ensure_minimum_suggestions(res, d) ==
    [c \in CategorySet |->
        IF Len(res[c]) < 2
        THEN Supplement(res[c], _generate_fallback_suggestions(d)[c],
                        Len(_generate_fallback_suggestions(d)[c]))
        ELSE res[c]]

\* a client made without looking for the key
ClientAvailableWithoutKey(openai) == openai.package

\* lines 11-18 and 190-192: a client exists
ClientAvailable(openai) == openai.package /\ openai.api_key

\* lines 217-242: the exception the external attempt ends with, "none" when
\* it produces a result
AttemptException(openai) ==
    IF openai.call = "raises" THEN "APIError"
    ELSE IF openai.body = "nonjson" THEN "JSONDecodeError"
    ELSE IF openai.body = "notdict" THEN "AttributeError"
    ELSE IF \E c \in CategorySet : openai.cats[c].kind = "null" THEN "TypeError"
    ELSE "none"

\* an except clause for the JSON error alone
CaughtJsonOnly(exception) == exception = "JSONDecodeError"

\* lines 245-250: "except Exception" catches whatever the attempt raised
Caught(exception) == TRUE

\* lines 231-242
AttemptResult(d, openai) ==
    _ensure_minimum_suggestions(
        [c \in CategorySet |-> _normalize_suggestions(openai.cats[c])], d)

\* what a call of generate_ai_suggestions returns or raises, the path it
\* took and the external calls it made
Suggested(value, path, calls) ==
    [raised |-> FALSE, value |-> value, path |-> path, calls |-> calls]
SuggestRaised(calls) ==
    [raised |-> TRUE, value |-> <<>>, path |-> "raised", calls |-> calls]

\* lines 170-253
generate_ai_suggestions(d, openai) ==
    IF IsEmpty(d) THEN Suggested(_generate_fallback_suggestions(d), "fallback", 0)
    ELSE IF ~ClientAvailable(openai)
    THEN Suggested(_generate_fallback_suggestions(d), "fallback", 0)
    ELSE IF AttemptException(openai) = "none"
    THEN Suggested(AttemptResult(d, openai), "external", 1)
    ELSE IF Caught(AttemptException(openai))
    THEN Suggested(_generate_fallback_suggestions(d), "fallback", 1)
    ELSE SuggestRaised(1)

(***************************************************************************)
(* Bounded inputs                                                          *)
(***************************************************************************)
MaxImages == 3
MaxHeadings == 2

Ok200 == HeadOutcome(FALSE, 200, -1)

\* a page with nothing on it, fetched without error
BasePage ==
    [fetch |-> "ok", final_url |-> "input", fault |-> FALSE, content |-> 0,
     title |-> [tag |-> "absent", len |-> 0],
     meta |-> [tag |-> "absent", len |-> 0],
     h1_count |-> 0, h2_count |-> 0,
     images |-> <<>>, scripts |-> <<>>, styles |-> <<>>,
     canonical |-> FALSE, robots_meta |-> FALSE,
     sitemap |-> HeadFails, robots |-> HeadFails,
     headers |-> {}, anchors |-> <<>>, link_head |-> <<>>]

\* base with the fields of o replaced
With(base, o) == [k \in DOMAIN base |-> IF k \in DOMAIN o THEN o[k] ELSE base[k]]

TitleTags ==
    {[tag |-> "absent", len |-> 0], [tag |-> "nostring", len |-> 0]}
    \cup {[tag |-> "text", len |-> n] : n \in {0, 19, 20, 29, 30, 60, 61, 70, 71}}
MetaTags ==
    {[tag |-> "absent", len |-> 0]}
    \cup {[tag |-> "present", len |-> n] :
            n \in {0, 99, 100, 119, 120, 160, 161, 180, 181}}

Image(alt, src, head) == [alt |-> alt, src |-> src, head |-> head]
Asset(src, head) == [src |-> src, head |-> head]

\* n images, the first m of them without alt text, none with a src
ImagesMissing(n, m) == [i \in 1..n |-> Image(i > m, FALSE, HeadFails)]

SeoPages ==
    {With(BasePage,
          [title |-> t, meta |-> d, h1_count |-> h,
           images |-> ImagesMissing(n, m),
           canonical |-> pr[1], robots_meta |-> pr[2],
           sitemap |-> IF pr[3] THEN Ok200 ELSE HeadFails,
           robots |-> IF pr[4] THEN Ok200 ELSE HeadFails]) :
        t \in TitleTags, d \in MetaTags, h \in 0..MaxHeadings,
        n \in 0..MaxImages, m \in 0..MaxImages,
        pr \in BOOLEAN \X BOOLEAN \X BOOLEAN \X BOOLEAN}

\* byte counts on both sides of the threshold of t KB
Around(t) == {t * 1024, t * 1024 + 6}
SizedHead(bytes) == HeadOutcome(FALSE, 200, bytes)

PerfPages ==
    {With(BasePage,
          [content |-> c,
           scripts |-> <<Asset(TRUE, SizedHead(j))>>,
           styles  |-> <<Asset(TRUE, SizedHead(st))>>,
           images  |-> <<Image(TRUE, TRUE, SizedHead(im))>>]) :
        c  \in {0} \cup Around(500) \cup Around(1000) \cup Around(2000),
        j  \in {0} \cup Around(200) \cup Around(300) \cup Around(500),
        st \in {0} \cup Around(50) \cup Around(100) \cup Around(200),
        im \in {0} \cup Around(100) \cup Around(200) \cup Around(300)}

SecurityPages ==
    {With(BasePage, [headers |-> hs]) : hs \in SUBSET SecurityHeaderNames}

ScorePages == SeoPages \cup PerfPages \cup SecurityPages

NotRun == Raised("not run")

\* the external service when it is not configured
NoService ==
    [package |-> FALSE, api_key |-> FALSE, call |-> "ok", body |-> "dict",
     cats |-> [c \in CategorySet |-> [kind |-> "missing", items |-> <<>>]]]

NotSuggested == SuggestRaised(0)

\* the variables of the suggestion engine while it is not under study
SuggestIdle ==
    /\ audit_data = <<>>
    /\ service = NoService
    /\ out = NotSuggested

\* no request served yet
NotServed ==
    [audit |-> 0, endpoint |-> "", outcome |-> "", value |-> <<>>,
     generated |-> FALSE, cached |-> <<>>]

\* the variables of the service while it is not under study
PipelineIdle ==
    /\ db = <<>>
    /\ tasks = <<>>
    /\ attached = <<>>
    /\ served = NotServed

\* the variables of analyze_url while it is not under study
AnalysisIdle ==
    /\ web = BasePage
    /\ ret = NotRun
    /\ loc = NoLocals
    /\ futures = <<>>
    /\ probed = {}
    /\ order = <<>>

(***************************************************************************)
(* SpecScore: one call of analyze_url on a page that is fetched; the       *)
(* scores are those the call stores in its result.                         *)
(***************************************************************************)
InitScore ==
    /\ web \in ScorePages
    /\ pc = "start"
    /\ ret = NotRun
    /\ loc = NoLocals
    /\ futures = <<>>
    /\ probed = {}
    /\ order = <<>>
    /\ SuggestIdle
    /\ PipelineIdle

Analyze ==
    /\ pc = "start"
    /\ ret' = analyze_url(web)
    /\ pc' = "done"
    /\ UNCHANGED <<web, loc, futures, probed, order, suggest_vars, pipeline_vars>>

NextScore == Analyze

SpecScore == InitScore /\ [][NextScore]_vars

\* C6: each of the three scores of every analysed page lies in 0..100
ScoresInRange ==
    (pc = "done" /\ ~ret.raised) =>
        /\ ret.result.score_seo \in 0..100
        /\ ret.result.score_performance \in 0..100
        /\ ret.result.score_security \in 0..100

\* a page at the top of the SEO and performance scales and the bottom of
\* the security scale
ScoresWitness ==
    /\ pc = "done"
    /\ ~ret.raised
    /\ ret.result.score_seo = 100
    /\ ret.result.score_performance = 100
    /\ ret.result.score_security = 0

(***************************************************************************)
(* SpecAnalyze: one call of analyze_url, statement by statement, with the  *)
(* worker pool of the link check.                                          *)
(***************************************************************************)
MaxAnchors == 3

\* line 328: ThreadPoolExecutor(max_workers=10)
max_workers == 10

UrlIds == {1, 2, 3}

\* the final status codes a link can answer with, and no answer at all
LinkOutcomes ==
    {<<HeadFails, HeadOutcome(FALSE, 199, -1), HeadOutcome(FALSE, 200, -1),
       HeadOutcome(FALSE, 399, -1), HeadOutcome(FALSE, 400, -1),
       HeadOutcome(FALSE, 499, -1)>>,
     <<HeadFails, HeadOutcome(FALSE, 399, -1), HeadOutcome(FALSE, 400, -1),
       HeadOutcome(FALSE, 199, -1), HeadOutcome(FALSE, 200, -1),
       HeadOutcome(FALSE, 499, -1)>>}

\* every URL given every outcome, neighbours given different ones
LinkHeads ==
    {[u \in UrlIds |-> o[((u + r) % Len(o)) + 1]] :
        o \in LinkOutcomes, r \in 0..5}

AnchorSeqs == UNION {[1..n -> {0} \cup UrlIds] : n \in 0..MaxAnchors}

LinkPages ==
    {With(BasePage, [anchors |-> a, link_head |-> lh]) :
        a \in AnchorSeqs, lh \in LinkHeads}

\* the outcomes of a HEAD request made for a size
SizeOutcomes ==
    {HeadFails, HeadOutcome(FALSE, 200, -1), HeadOutcome(FALSE, 200, -2),
     HeadOutcome(FALSE, 200, 2048)}
StatusOutcomes == {HeadFails, Ok200, HeadOutcome(FALSE, 404, -1)}

ProbePages ==
    {With(BasePage,
          [sitemap |-> sm, robots |-> rb,
           scripts |-> <<Asset(TRUE, js), Asset(TRUE, SizedHead(1024))>>,
           styles  |-> <<Asset(FALSE, HeadFails), Asset(TRUE, css)>>,
           images  |-> <<Image(FALSE, TRUE, im), Image(TRUE, TRUE, SizedHead(1024))>>,
           anchors |-> <<1, 2>>, link_head |-> lh]) :
        sm \in StatusOutcomes, rb \in StatusOutcomes,
        js \in SizeOutcomes, css \in SizeOutcomes, im \in SizeOutcomes,
        lh \in LinkHeads}

FetchFailures == {"ConnectionError", "Timeout", "HTTPError"}

FailingPages ==
    {With(BasePage, [fetch |-> f]) : f \in FetchFailures}
    \cup {With(BasePage, [fault |-> TRUE])}

\* pages reached through a redirect, holding relative references
RedirectPages ==
    {With(BasePage,
          [final_url |-> "final", sitemap |-> sm,
           scripts |-> <<Asset(TRUE, SizedHead(1024))>>,
           styles  |-> <<Asset(TRUE, SizedHead(1024))>>,
           images  |-> <<Image(TRUE, TRUE, SizedHead(1024))>>,
           anchors |-> <<1>>, link_head |-> [u \in UrlIds |-> Ok200]]) :
        sm \in StatusOutcomes}

AnalyzePages == LinkPages \cup ProbePages \cup FailingPages \cup RedirectPages

InitAnalyze ==
    /\ web \in AnalyzePages
    /\ pc = "start"
    /\ ret = NotRun
    /\ loc = NoLocals
    /\ futures = <<>>
    /\ probed = {}
    /\ order = <<>>
    /\ SuggestIdle
    /\ PipelineIdle

\* an "except" that lets the exception of the request through
ProbeAbortsOnException(head) == head.raises

\* the bare "except:" around every HEAD request: no exception of a probe
\* leaves its try block
ProbeAborts(head) == FALSE

\* the run ends with the exception of line 404-405
Abort ==
    /\ ret' = AnalysisError
    /\ pc' = "done"

\* lines 162-168: the primary GET and raise_for_status
Fetch ==
    /\ pc = "start"
    /\ IF web.fetch # "ok"
       THEN ret' = FetchError(web) /\ pc' = "done"
       ELSE ret' = ret /\ pc' = "extract"
    /\ UNCHANGED <<web, loc, futures, probed, order, suggest_vars, pipeline_vars>>

\* the first argument of every urljoin and the argument of urlparse (lines
\* 175, 215, 224, 245, 263, 280, 317): the url the function was given,
\* "input"; a page that was redirected has another final_url
JoinBase(page) == "input"

\* lines 170-213: the parse and the features read from the document
Extract ==
    /\ pc = "extract"
    /\ IF web.fault
       THEN Abort /\ loc' = loc
       ELSE ret' = ret /\ pc' = "sitemap" /\ loc' = [loc EXCEPT !.url = JoinBase(web)]
    /\ UNCHANGED <<web, futures, probed, order, suggest_vars, pipeline_vars>>

\* lines 215-222
ProbeSitemap ==
    /\ pc = "sitemap"
    /\ probed' = probed \cup {<<"sitemap", 0>>}
    /\ IF ProbeAborts(web.sitemap)
       THEN Abort /\ loc' = loc
       ELSE /\ loc' = [loc EXCEPT !.sitemap_available = ProbeAvailable(web.sitemap)]
            /\ pc' = "robots"
            /\ ret' = ret
    /\ UNCHANGED <<web, futures, order, suggest_vars, pipeline_vars>>

\* lines 224-231
ProbeRobots ==
    /\ pc = "robots"
    /\ probed' = probed \cup {<<"robots", 0>>}
    /\ IF ProbeAborts(web.robots)
       THEN Abort /\ loc' = loc
       ELSE /\ loc' = [loc EXCEPT !.robots_available = ProbeAvailable(web.robots)]
            /\ pc' = "scripts"
            /\ ret' = ret
    /\ UNCHANGED <<web, futures, order, suggest_vars, pipeline_vars>>

\* lines 241-251: one pass of the loop over the scripts
ProbeScript ==
    /\ pc = "scripts"
    /\ IF loc.i > Len(web.scripts)
       THEN /\ loc' = [loc EXCEPT !.i = 1]
            /\ pc' = "styles"
            /\ UNCHANGED <<ret, probed>>
       ELSE IF ~web.scripts[loc.i].src
       THEN /\ loc' = [loc EXCEPT !.i = @ + 1]
            /\ UNCHANGED <<pc, ret, probed>>
       ELSE /\ probed' = probed \cup {<<"script", loc.i>>}
            /\ IF ProbeAborts(web.scripts[loc.i].head)
               THEN Abort /\ loc' = loc
               ELSE /\ loc' = [loc EXCEPT
                                 !.js_bytes = @ + ProbeBytes(web.scripts[loc.i].head),
                                 !.i = @ + 1]
                    /\ UNCHANGED <<pc, ret>>
    /\ UNCHANGED <<web, futures, order, suggest_vars, pipeline_vars>>

\* lines 261-271: one pass of the loop over the stylesheets
ProbeStyle ==
    /\ pc = "styles"
    /\ IF loc.i > Len(web.styles)
       THEN /\ loc' = [loc EXCEPT !.i = 1]
            /\ pc' = "images"
            /\ UNCHANGED <<ret, probed>>
       ELSE IF ~web.styles[loc.i].src
       THEN /\ loc' = [loc EXCEPT !.i = @ + 1]
            /\ UNCHANGED <<pc, ret, probed>>
       ELSE /\ probed' = probed \cup {<<"style", loc.i>>}
            /\ IF ProbeAborts(web.styles[loc.i].head)
               THEN Abort /\ loc' = loc
               ELSE /\ loc' = [loc EXCEPT
                                 !.css_bytes = @ + ProbeBytes(web.styles[loc.i].head),
                                 !.i = @ + 1]
                    /\ UNCHANGED <<pc, ret>>
    /\ UNCHANGED <<web, futures, order, suggest_vars, pipeline_vars>>

\* lines 277-289: one pass of the loop over the images
ProbeImage ==
    /\ pc = "images"
    /\ IF loc.i > Len(web.images)
       THEN /\ loc' = [loc EXCEPT !.i = 1]
            /\ pc' = "links"
            /\ UNCHANGED <<ret, probed>>
       ELSE IF ~web.images[loc.i].src
       THEN /\ loc' = [loc EXCEPT !.i = @ + 1]
            /\ UNCHANGED <<pc, ret, probed>>
       ELSE /\ probed' = probed \cup {<<"image", loc.i>>}
            /\ IF ProbeAborts(web.images[loc.i].head)
               THEN Abort /\ loc' = loc
               ELSE /\ loc' = [loc EXCEPT
                                 !.largest_bytes =
                                     Max(@, ProbeBytes(web.images[loc.i].head)),
                                 !.i = @ + 1]
                    /\ UNCHANGED <<pc, ret>>
    /\ UNCHANGED <<web, futures, order, suggest_vars, pipeline_vars>>

\* lines 312-326: link_urls and the two counters
CollectLinks ==
    /\ pc = "links"
    /\ loc' = [loc EXCEPT !.link_urls = link_urls(web),
                          !.working_links = 0, !.broken_links = 0]
    /\ futures' = [j \in DOMAIN link_urls(web) |->
                      [state |-> "new", value |-> FALSE]]
    /\ pc' = "submit"
    /\ UNCHANGED <<web, ret, probed, order, suggest_vars, pipeline_vars>>

\* line 329: executor.submit for the next URL of link_urls
Submit ==
    /\ pc = "submit"
    /\ \E j \in DOMAIN futures :
        /\ futures[j].state = "new"
        /\ \A k \in 1..(j - 1) : futures[k].state # "new"
        /\ futures' = [futures EXCEPT ![j].state = "pending"]
    /\ UNCHANGED <<web, pc, ret, loc, probed, order, suggest_vars, pipeline_vars>>

\* line 330: the list of futures is complete, as_completed starts
AllSubmitted ==
    /\ pc = "submit"
    /\ \A j \in DOMAIN futures : futures[j].state # "new"
    /\ pc' = "collect"
    /\ UNCHANGED <<web, ret, loc, futures, probed, order, suggest_vars, pipeline_vars>>

Running == {j \in DOMAIN futures : futures[j].state = "running"}

\* a free worker of the pool takes the oldest queued call
WorkerStart ==
    /\ Cardinality(Running) < max_workers
    /\ \E j \in DOMAIN futures :
        /\ futures[j].state = "pending"
        /\ \A k \in 1..(j - 1) : futures[k].state \notin {"new", "pending"}
        /\ futures' = [futures EXCEPT ![j].state = "running"]
        /\ probed' = probed \cup {<<"link", loc.link_urls[j]>>}
    /\ UNCHANGED <<web, pc, ret, loc, order, suggest_vars, pipeline_vars>>

\* lines 139-145 in a worker: the call returns and its future completes
WorkerFinish ==
    /\ \E j \in DOMAIN futures :
        /\ futures[j].state = "running"
        /\ futures' = [futures EXCEPT ![j] =
              [state |-> "finished",
               value |-> check_link_status(web.link_head[loc.link_urls[j]])]]
    /\ UNCHANGED <<web, pc, ret, loc, probed, order, suggest_vars, pipeline_vars>>

\* lines 330-335: as_completed yields a completed future, in any order
Consume ==
    /\ pc = "collect"
    /\ \E j \in DOMAIN futures :
        /\ futures[j].state = "finished"
        /\ futures' = [futures EXCEPT ![j].state = "consumed"]
        /\ order' = Append(order, j)
        /\ IF ProbeAborts(web.link_head[loc.link_urls[j]])
           THEN Abort /\ loc' = loc
           ELSE /\ loc' = IF futures[j].value
                          THEN [loc EXCEPT !.working_links = @ + 1]
                          ELSE [loc EXCEPT !.broken_links = @ + 1]
                /\ UNCHANGED <<pc, ret>>
    /\ UNCHANGED <<web, probed, suggest_vars, pipeline_vars>>

\* a loop over the futures that are complete when it is entered
JoinedEarly ==
    /\ pc = "collect"
    /\ \A j \in DOMAIN futures : futures[j].state # "finished"
    /\ pc' = "score"
    /\ UNCHANGED <<web, ret, loc, futures, probed, order, suggest_vars, pipeline_vars>>

\* a wait that returns with the first completed future
JoinedOnFirst ==
    /\ pc = "collect"
    /\ \A j \in DOMAIN futures : futures[j].state # "finished"
    /\ futures = <<>> \/ \E j \in DOMAIN futures : futures[j].state = "consumed"
    /\ pc' = "score"
    /\ UNCHANGED <<web, ret, loc, futures, probed, order, suggest_vars, pipeline_vars>>

\* line 330: as_completed is exhausted; the pool is shut down
Joined ==
    /\ pc = "collect"
    /\ \A j \in DOMAIN futures : futures[j].state = "consumed"
    /\ pc' = "score"
    /\ UNCHANGED <<web, ret, loc, futures, probed, order, suggest_vars, pipeline_vars>>

\* lines 357-400: the result dict, the three scores, return
Score ==
    /\ pc = "score"
    /\ ret' = Returned(WithScores(BuildResult(web, loc)))
    /\ pc' = "done"
    /\ UNCHANGED <<web, loc, futures, probed, order, suggest_vars, pipeline_vars>>

NextAnalyze ==
    \/ Fetch \/ Extract \/ ProbeSitemap \/ ProbeRobots
    \/ ProbeScript \/ ProbeStyle \/ ProbeImage
    \/ CollectLinks \/ Submit \/ AllSubmitted
    \/ WorkerStart \/ WorkerFinish \/ Consume \/ Joined
    \/ Score

SpecAnalyze == InitAnalyze /\ [][NextAnalyze]_vars

\* the statement-by-statement run computes the function analyze_url
RunIsFunction == pc = "done" => ret = analyze_url(web)

(***************************************************************************)
(* Properties of one run of analyze_url (SpecAnalyze)                      *)
(***************************************************************************)
\* the per-URL outcome of the link check, as the claims state it
IsWorkingStatus(head) ==
    ~head.raises /\ head.status_code >= 200 /\ head.status_code < 400

WorkingUrls == {j \in DOMAIN loc.link_urls :
                   IsWorkingStatus(web.link_head[loc.link_urls[j]])}

\* C4: once the link check has joined, working_links + broken_links is the
\* number of URLs submitted, and the two counts are those of the per-URL
\* outcomes, whatever the order in which the futures completed
LinkCountsExact ==
    (pc \in {"score", "done"} /\ web.fetch = "ok" /\ ~web.fault) =>
        /\ loc.working_links + loc.broken_links = Len(loc.link_urls)
        /\ loc.working_links = Cardinality(WorkingUrls)
        /\ loc.broken_links = Len(loc.link_urls) - Cardinality(WorkingUrls)
        /\ Len(order) = Len(loc.link_urls)
        /\ \A j \in DOMAIN loc.link_urls :
              Cardinality({k \in DOMAIN order : order[k] = j}) = 1

\* three URLs, the last submitted consumed first, both outcomes present
LinkCountsWitness ==
    /\ pc = "done"
    /\ Len(loc.link_urls) = 3
    /\ order = <<3, 1, 2>>
    /\ loc.working_links = 2
    /\ loc.broken_links = 1

\* C5: a completed probe is working iff it answered with 200 <= status < 400;
\* a probe that raised is broken
LinkClassification ==
    \A j \in DOMAIN futures :
        futures[j].state \in {"finished", "consumed"} =>
            LET head == web.link_head[loc.link_urls[j]]
            IN  /\ head.raises => ~futures[j].value
                /\ ~head.raises =>
                      (futures[j].value <=>
                          (200 <= head.status_code /\ head.status_code < 400))

\* one run with a 399 found working, a 400 found broken and an exception
\* found broken
LinkClassificationWitness ==
    /\ pc = "done"
    /\ \E a, b, c \in DOMAIN futures :
        /\ web.link_head[loc.link_urls[a]].status_code = 399
        /\ ~web.link_head[loc.link_urls[a]].raises
        /\ futures[a].value
        /\ web.link_head[loc.link_urls[b]].status_code = 400
        /\ ~futures[b].value
        /\ web.link_head[loc.link_urls[c]].raises
        /\ ~futures[c].value

\* the HEAD requests a complete run makes
ExpectedProbes ==
    {<<"sitemap", 0>>, <<"robots", 0>>}
    \cup {<<"script", i>> : i \in {k \in DOMAIN web.scripts : web.scripts[k].src}}
    \cup {<<"style", i>> : i \in {k \in DOMAIN web.styles : web.styles[k].src}}
    \cup {<<"image", i>> : i \in {k \in DOMAIN web.images : web.images[k].src}}
    \cup {<<"link", web.anchors[i]>> :
            i \in {k \in DOMAIN web.anchors : web.anchors[k] # 0 /\ k <= LinkLimit}}

\* the tags whose HEAD request was answered with a Content-Length
Answered(assets) ==
    {i \in DOMAIN assets :
        assets[i].src /\ ~assets[i].head.raises /\ assets[i].head.length >= 0}

RECURSIVE SumLengths(_, _)
SumLengths(assets, idx) ==
    IF idx = {} THEN 0
    ELSE LET i == CHOOSE k \in idx : TRUE
         IN  assets[i].head.length + SumLengths(assets, idx \ {i})

\* the largest answered Content-Length, 0 without any
MaxLength(assets) ==
    IF Answered(assets) = {} THEN 0
    ELSE LET i == CHOOSE k \in Answered(assets) :
                    \A m \in Answered(assets) :
                        assets[m].head.length <= assets[k].head.length
         IN  assets[i].head.length

\* C10: a run whose page was fetched and parsed returns a result whatever
\* its HEAD requests did: every probe was made, and a probe that raised
\* left its default (not available, nothing added to the size, link broken)
ProbeFailureIsLocal ==
    (pc = "done" /\ web.fetch = "ok" /\ ~web.fault) =>
        /\ ~ret.raised
        /\ probed = ExpectedProbes
        /\ web.sitemap.raises => ~ret.result.sitemap_available
        /\ web.robots.raises => ~ret.result.robots_available
        /\ ret.result.js_size_kb =
              RoundKB(SumLengths(web.scripts, Answered(web.scripts)))
        /\ ret.result.css_size_kb =
              RoundKB(SumLengths(web.styles, Answered(web.styles)))
        /\ ret.result.largest_image_kb = RoundKB(MaxLength(web.images))
        /\ ret.result.broken_links >=
              Cardinality({j \in DOMAIN loc.link_urls :
                              web.link_head[loc.link_urls[j]].raises})

\* a run that returned although a probe of every kind raised
ProbeFailureWitness ==
    /\ pc = "done"
    /\ ~ret.raised
    /\ web.sitemap.raises /\ web.robots.raises
    /\ \E i \in DOMAIN web.scripts : web.scripts[i].src /\ web.scripts[i].head.raises
    /\ \E i \in DOMAIN web.styles : web.styles[i].src /\ web.styles[i].head.raises
    /\ \E i \in DOMAIN web.images : web.images[i].src /\ web.images[i].head.raises
    /\ ret.result.js_size_kb = 100
    /\ ret.result.css_size_kb = 0
    /\ ret.result.largest_image_kb = 100
    /\ \E j \in DOMAIN loc.link_urls : web.link_head[loc.link_urls[j]].raises
    /\ ret.result.broken_links >= 1

(***************************************************************************)
(* SpecSuggest: one call of generate_ai_suggestions                        *)
(***************************************************************************)
\* pages that take the rules of the fallback through both of their branches
SuggestPages ==
    {With(BasePage,
          [title |-> t, meta |-> m, h1_count |-> h, images |-> ImagesMissing(n, n)]) :
        t \in {[tag |-> "absent", len |-> 0], [tag |-> "text", len |-> 10],
               [tag |-> "text", len |-> 40]},
        m \in {[tag |-> "absent", len |-> 0], [tag |-> "present", len |-> 50],
               [tag |-> "present", len |-> 130]},
        h \in 0..MaxHeadings, n \in 0..1}
    \cup {With(BasePage,
          [content |-> c,
           scripts |-> <<Asset(TRUE, SizedHead(j))>>,
           images  |-> <<Image(TRUE, TRUE, SizedHead(im))>>]) :
        c \in Around(500), j \in Around(200), im \in Around(300)}
    \cup {With(BasePage, [headers |-> hs]) :
        hs \in SUBSET {"Content-Security-Policy", "X-Frame-Options",
                       "Strict-Transport-Security"}}
    \cup {With(BasePage,
          [canonical |-> cn, h2_count |-> h2,
           sitemap |-> IF sm THEN Ok200 ELSE HeadFails]) :
        cn \in BOOLEAN, h2 \in {0, 3}, sm \in BOOLEAN}

\* the results blob main.py stores for a failed run (line 81)
\* an exception text that carries no cause
ErrorBlobWithoutCause(error, url) == [error |-> "Analysis failed", url |-> url]

ErrorBlob(error, url) == [error |-> error, url |-> url]

\* what the service may send for one category
RawChoices ==
    {"missing", "null", "empty", "one", "string", "other", "two", "twice",
     "echo1", "echo2", "mixed", "three"}

RawItem(type, issue, suggestion) ==
    [type |-> type, issue |-> issue, suggestion |-> suggestion]
ItemX == RawItem("dict", "Issue X", "Suggestion X")
ItemY == RawItem("dict", "Issue Y", "Suggestion Y")
ItemText == RawItem("str", "Plain advice", "")
ItemOther == RawItem("other", "", "")
\* the service repeating the n-th suggestion the fallback has for c
Echo(d, c, n) ==
    LET item == _generate_fallback_suggestions(d)[c][n]
    IN  RawItem("dict", item.issue, item.suggestion)

RawList(items) == [kind |-> "list", items |-> items]

RawValue(choice, d, c) ==
    CASE choice = "missing" -> [kind |-> "missing", items |-> <<>>]
      [] choice = "null"    -> [kind |-> "null", items |-> <<>>]
      [] choice = "empty"   -> RawList(<<>>)
      [] choice = "one"     -> RawList(<<ItemX>>)
      [] choice = "string"  -> RawList(<<ItemText>>)
      [] choice = "other"   -> RawList(<<ItemOther>>)
      [] choice = "two"     -> RawList(<<ItemX, ItemY>>)
      [] choice = "twice"   -> RawList(<<ItemX, ItemX>>)
      [] choice = "echo1"   -> RawList(<<Echo(d, c, 1)>>)
      [] choice = "echo2"   -> RawList(<<Echo(d, c, 2)>>)
      [] choice = "mixed"   -> RawList(<<ItemOther, ItemText, ItemOther>>)
      [] choice = "three"   -> RawList(<<ItemX, ItemText, ItemY>>)

\* a configured service whose answer holds `base` for every category but
\* `c`, which holds `choice`
Answer(d, base, c, choice) ==
    [package |-> TRUE, api_key |-> TRUE, call |-> "ok", body |-> "dict",
     cats |-> [k \in CategorySet |->
                 RawValue(IF k = c THEN choice ELSE base, d, k)]]

FailingServices ==
    {[NoService EXCEPT !.package = pk, !.api_key = ak, !.call = cl, !.body = bd] :
        pk \in BOOLEAN, ak \in BOOLEAN, cl \in {"ok", "raises"},
        bd \in {"dict", "nonjson", "notdict"}}

Services(d) ==
    FailingServices
    \cup {Answer(d, base, c, choice) :
            base \in {"missing", "two"}, c \in CategorySet, choice \in RawChoices}

InitSuggest ==
    /\ pc = "start"
    /\ AnalysisIdle
    /\ \/ audit_data = <<>>
       \/ \E w \in SuggestPages : audit_data = analyze_url(w).result
       \/ audit_data = ErrorBlob("Failed to fetch URL: Timeout", 1)
    /\ service \in Services(audit_data)
    /\ out = NotSuggested
    /\ PipelineIdle

Generate ==
    /\ pc = "start"
    /\ out' = generate_ai_suggestions(audit_data, service)
    /\ pc' = "done"
    /\ UNCHANGED <<analysis_vars, audit_data, service, pipeline_vars>>

NextSuggest == Generate

SpecSuggest == InitSuggest /\ [][NextSuggest]_vars

\* the shape every result must have: the seven keys, two entries at least
WellShaped(value) ==
    /\ DOMAIN value = CategorySet
    /\ \A c \in CategorySet : Len(value[c]) >= 2

\* C1: whatever the feature set and the path taken, the call returns the
\* seven categories with at least two entries each
SuggestionsWellShaped ==
    pc = "done" => (~out.raised /\ WellShaped(out.value))

\* an accepted external answer with one category short of two entries and
\* another absent, both brought to two
SuggestionsWitness ==
    /\ pc = "done"
    /\ out.path = "external"
    /\ \E c \in CategorySet :
        /\ service.cats[c].kind = "list"
        /\ Len(service.cats[c].items) = 1
        /\ Len(out.value[c]) = 2
    /\ \E c \in CategorySet :
        /\ service.cats[c].kind = "missing"
        /\ Len(out.value[c]) = 2

\* the attempt of a configured service failed
AttemptFailed == ClientAvailable(service) /\ AttemptException(service) # "none"

\* C3: when the external call raises or answers with no JSON or the wrong
\* shape, the call still returns, well shaped, and with what it returns
\* when no credential is configured
ExternalFailureFallsBack ==
    (pc = "done" /\ AttemptFailed) =>
        /\ ~out.raised
        /\ WellShaped(out.value)
        /\ out.value =
             generate_ai_suggestions(audit_data, [service EXCEPT !.api_key = FALSE]).value

\* a call that fell back after the service raised, on a real feature set
ExternalFailureWitness ==
    /\ pc = "done"
    /\ ~IsEmpty(audit_data)
    /\ ClientAvailable(service)
    /\ service.call = "raises"
    /\ out.path = "fallback"
    /\ out.calls = 1
    /\ WellShaped(out.value)

(***************************************************************************)
(* Spec: the service. POST /analyze creates a record and dispatches        *)
(* run_analysis_background for it; the run and the requests for            *)
(* suggestions interleave on the audit table.                              *)
(*                                                                         *)
(* Every handler and the run open their own session (db.py line 21).       *)
(* results_data is a plain JSON column (models.py line 17): the unit of    *)
(* work writes an attribute at commit only when the attribute was          *)
(* assigned, so a change made inside the loaded dictionary is not          *)
(* written, and a commit expires what the session had loaded.              *)
(***************************************************************************)
MaxAudits == 1

None == [is_none |-> TRUE]
IsNone(d) == "is_none" \in DOMAIN d
\* "not audit.results_data"
Falsy(d) == IsNone(d) \/ DOMAIN d = {}
\* isinstance(audit.results_data, dict)
IsDict(d) == ~IsNone(d)

\* the pages the submitted urls lead to
PipelinePages ==
    <<With(BasePage, [sitemap |-> Ok200]),
      With(BasePage, [canonical |-> TRUE, h1_count |-> 1, h2_count |-> 3,
                      content |-> 600 * 1024,
                      headers |-> {"Content-Security-Policy",
                                   "Strict-Transport-Security"}]),
      With(BasePage, [fetch |-> "ConnectionError"]),
      With(BasePage, [fetch |-> "Timeout"]),
      With(BasePage, [fetch |-> "HTTPError"]),
      With(BasePage, [fault |-> TRUE])>>

\* an Audit row; a title is the length of its text, and a new row has the
\* defaults of models.py lines 13-16
Audit(url, status, results_data) ==
    [url |-> url, status |-> status, results_data |-> results_data,
     title |-> 23, score_seo |-> 0, score_performance |-> 0,
     score_security |-> 0, broken_links |-> 0]

\* session.get(Audit, id) on a row that exists: the row, nothing assigned
SessionGet(row) == [row |-> row, dirty |-> {}]

\* audit.name = value
SetAttribute(obj, name, value) ==
    [row |-> [obj.row EXCEPT ![name] = value], dirty |-> obj.dirty \cup {name}]

\* several assignments to attributes, as a record of the new values
SetAttributes(obj, new) ==
    [row |-> [k \in DOMAIN obj.row |-> IF k \in DOMAIN new THEN new[k] ELSE obj.row[k]],
     dirty |-> obj.dirty \cup DOMAIN new]

\* d[key] = value on a dictionary
SetItem(d, key, value) ==
    [k \in DOMAIN d \cup {key} |-> IF k = key THEN value ELSE d[k]]

\* audit.results_data[key] = value: the loaded dictionary changes, the
\* attribute is not assigned
SetResultsItem(obj, key, value) ==
    [row |-> [obj.row EXCEPT !.results_data = SetItem(@, key, value)],
     dirty |-> obj.dirty]

\* session.add(audit); session.commit(): the assigned attributes are written
Commit(stored, obj) ==
    [k \in DOMAIN stored |-> IF k \in obj.dirty THEN obj.row[k] ELSE stored[k]]

\* the run dispatched for an audit
Task(at, results, error, suggestions, fetches) ==
    [pc |-> at, results |-> results, error |-> error, suggestions |-> suggestions,
     fetches |-> fetches]

\* the positions of the run inside the try block of lines 39-73
TryBlock == {"queued", "analyze", "store", "suggest", "attach"}

\* the external service as the process is configured
Configured == [NoService EXCEPT !.package = TRUE, !.api_key = TRUE]

\* what the external service may do at one call
Replies(d) ==
    IF ClientAvailable(service)
    THEN {Answer(d, "two", "seo", "one"), [Configured EXCEPT !.call = "raises"]}
    ELSE {service}

Init ==
    /\ pc = "serving"
    /\ AnalysisIdle
    /\ audit_data = <<>>
    /\ out = NotSuggested
    /\ service \in {NoService, Configured}
    /\ PipelineIdle

\* POST /analyze, main.py lines 104-130
analyze ==
    /\ Len(db) < MaxAudits
    /\ \E url \in DOMAIN PipelinePages :
        db' = Append(db, Audit(url, "pending", None))
    /\ tasks' = Append(tasks, Task("queued", NotRun, "", <<>>, 0))
    /\ attached' = Append(attached, <<>>)
    /\ UNCHANGED <<pc, analysis_vars, suggest_vars, served>>

\* lines 41-46
SetProcessing(a) ==
    /\ tasks[a].pc = "queued"
    /\ db' = [db EXCEPT ![a] =
                Commit(@, SetAttribute(SessionGet(@), "status", "processing"))]
    /\ tasks' = [tasks EXCEPT ![a].pc = "analyze"]
    /\ UNCHANGED <<pc, analysis_vars, suggest_vars, attached, served>>

\* line 49
RunAnalysis(a) ==
    /\ tasks[a].pc = "analyze"
    /\ LET results == analyze_url(PipelinePages[db[a].url])
       IN  tasks' = [tasks EXCEPT ![a] =
                IF results.raised
                THEN Task("handler", results, results.error, <<>>, @.fetches + 1)
                ELSE Task("store", results, "", <<>>, @.fetches + 1)]
    /\ UNCHANGED <<pc, analysis_vars, suggest_vars, db, attached, served>>

\* the status committed ahead of the results
StoreResultsStatusFirst(a) ==
    /\ tasks[a].pc = "store"
    /\ db' = [db EXCEPT ![a] =
                Commit(@, SetAttribute(SessionGet(@), "status", "completed"))]
    /\ tasks' = [tasks EXCEPT ![a].pc = "suggest"]
    /\ UNCHANGED <<pc, analysis_vars, suggest_vars, attached, served>>

\* lines 52-63
StoreResults(a) ==
    /\ tasks[a].pc = "store"
    /\ LET results == tasks[a].results.result
       IN  db' = [db EXCEPT ![a] =
                Commit(@, SetAttributes(SessionGet(@),
                    [title             |-> Get(results, "title", 9),
                     score_seo         |-> Get(results, "score_seo", 0),
                     score_performance |-> Get(results, "score_performance", 0),
                     score_security    |-> Get(results, "score_security", 0),
                     broken_links      |-> Get(results, "broken_links", 0),
                     results_data      |-> results,
                     status            |-> "completed"]))]
    /\ tasks' = [tasks EXCEPT ![a].pc = "suggest"]
    /\ UNCHANGED <<pc, analysis_vars, suggest_vars, attached, served>>

\* line 67: audit.results_data is loaded again after the commit of line 63
GenerateSuggestions(a) ==
    /\ tasks[a].pc = "suggest"
    /\ \E reply \in Replies(db[a].results_data) :
        LET made == generate_ai_suggestions(db[a].results_data, reply)
        IN  tasks' = [tasks EXCEPT ![a] =
                IF made.raised
                THEN Task("handler", @.results, "suggestions", <<>>, @.fetches)
                ELSE Task("attach", @.results, "", made.value, @.fetches)]
    /\ UNCHANGED <<pc, analysis_vars, suggest_vars, db, attached, served>>

\* lines 69-73
AttachSuggestions(a) ==
    /\ tasks[a].pc = "attach"
    /\ db' = [db EXCEPT ![a] =
                IF IsDict(@.results_data)
                THEN Commit(@, SetResultsItem(SessionGet(@), "ai_suggestions",
                                              tasks[a].suggestions))
                ELSE @]
    /\ attached' = [attached EXCEPT ![a] =
                      IF @ = <<>> /\ IsDict(db[a].results_data)
                      THEN <<tasks[a].suggestions>> ELSE @]
    /\ tasks' = [tasks EXCEPT ![a].pc = "done"]
    /\ UNCHANGED <<pc, analysis_vars, suggest_vars, served>>

\* an exception nothing above accounts for, raised by the statement the
\* run is at inside the try block
Unexpected(a) ==
    /\ tasks[a].pc \in TryBlock
    /\ tasks' = [tasks EXCEPT ![a] = Task("handler", @.results, "unexpected", <<>>, @.fetches)]
    /\ UNCHANGED <<pc, analysis_vars, suggest_vars, db, attached, served>>

\* the status the handler leaves in place of "failed"
HandlerStatusKept(status) == status

\* line 79
HandlerStatus(status) == "failed"

\* lines 74-83
HandleException(a) ==
    /\ tasks[a].pc = "handler"
    /\ db' = [db EXCEPT ![a] =
                Commit(@, SetAttribute(
                            SetAttribute(SessionGet(@), "status",
                                         HandlerStatus(@.status)),
                            "results_data", ErrorBlob(tasks[a].error, @.url)))]
    /\ tasks' = [tasks EXCEPT ![a].pc = "ended"]
    /\ UNCHANGED <<pc, analysis_vars, suggest_vars, attached, served>>

\* one step of the run of audit a
RunStep(a) ==
    \/ SetProcessing(a)
    \/ RunAnalysis(a)
    \/ StoreResults(a)
    \/ GenerateSuggestions(a)
    \/ AttachSuggestions(a)
    \/ Unexpected(a)
    \/ HandleException(a)

Response(a, endpoint, outcome, value, generated) ==
    [audit |-> a, endpoint |-> endpoint, outcome |-> outcome, value |-> value,
     generated |-> generated,
     cached |-> IF a \in DOMAIN attached THEN attached[a] ELSE <<>>]

\* what both handlers do once the record and its results are there: the
\* set found in the results, or a new one, attached and committed
Suggest(a, endpoint) ==
    IF "ai_suggestions" \in DOMAIN db[a].results_data
    THEN /\ served' = Response(a, endpoint, "ok",
                               db[a].results_data["ai_suggestions"], FALSE)
         /\ UNCHANGED <<db, attached>>
    ELSE \E reply \in Replies(db[a].results_data) :
            LET made == generate_ai_suggestions(db[a].results_data, reply)
            IN  IF made.raised
                THEN /\ served' = Response(a, endpoint, "500", <<>>, TRUE)
                     /\ UNCHANGED <<db, attached>>
                ELSE /\ served' = Response(a, endpoint, "ok", made.value, TRUE)
                     /\ db' = [db EXCEPT ![a] =
                                 Commit(@, SetResultsItem(SessionGet(@),
                                             "ai_suggestions", made.value))]
                     /\ attached' = [attached EXCEPT ![a] =
                                       IF @ = <<>> THEN <<made.value>> ELSE @]

\* GET /ai/suggestions/{audit_id}, routers/ai.py lines 9-31
get_ai_suggestions(a) ==
    /\ IF a \notin DOMAIN db
       THEN /\ served' = Response(a, "suggestions", "404", <<>>, FALSE)
            /\ UNCHANGED <<db, attached>>
       ELSE IF Falsy(db[a].results_data)
       THEN /\ served' = Response(a, "suggestions", "400", <<>>, FALSE)
            /\ UNCHANGED <<db, attached>>
       ELSE Suggest(a, "suggestions")
    /\ UNCHANGED <<pc, analysis_vars, suggest_vars, tasks>>

\* GET /fix/{audit_id}, main.py lines 253-291
fix_suggestions_page(a) ==
    /\ IF a \notin DOMAIN db
       THEN /\ served' = Response(a, "fix", "no_audit", <<>>, FALSE)
            /\ UNCHANGED <<db, attached>>
       ELSE IF Falsy(db[a].results_data)
       THEN /\ served' = Response(a, "fix", "400", <<>>, FALSE)
            /\ UNCHANGED <<db, attached>>
       ELSE Suggest(a, "fix")
    /\ UNCHANGED <<pc, analysis_vars, suggest_vars, tasks>>

Next ==
    \/ analyze
    \/ \E a \in DOMAIN tasks : RunStep(a)
    \/ \E a \in 1..MaxAudits : get_ai_suggestions(a)
    \/ \E a \in 1..MaxAudits : fix_suggestions_page(a)

Spec == Init /\ [][Next]_vars

\* the steps of the runs alone: a request for suggestions changes neither
\* a status nor a run
NextRun ==
    \/ analyze
    \/ \E a \in DOMAIN tasks : RunStep(a)

\* a dispatched run is executed: Starlette runs the background task after
\* the response, and every blocking call of the run has a timeout
LiveSpec ==
    Init /\ [][NextRun]_vars /\ \A a \in 1..MaxAudits : WF_vars(a \in DOMAIN tasks /\ RunStep(a))

(***************************************************************************)
(* Properties of the service                                               *)
(***************************************************************************)
\* C2: once a suggestion set has been attached to an audit, every later
\* request for the suggestions of that audit returns that set and
\* generates nothing
CachedSuggestionsServed ==
    served.cached # <<>> =>
        /\ served.outcome = "ok"
        /\ served.value = served.cached[1]
        /\ ~served.generated

AllowedTransitions ==
    {<<"pending", "processing">>, <<"processing", "completed">>,
     <<"processing", "failed">>}

\* C7: the status of a record changes only along pending -> processing ->
\* completed or failed, and completed and failed are terminal
StatusLifecycle ==
    [][\A a \in DOMAIN db :
         db'[a].status # db[a].status =>
            <<db[a].status, db'[a].status>> \in AllowedTransitions]_vars

Terminal == {"completed", "failed"}

FetchFailed(a) ==
    /\ tasks[a].pc = "ended"
    /\ PipelinePages[db[a].url].fetch # "ok"
    /\ tasks[a].results = analyze_url(PipelinePages[db[a].url])

\* C9: after a failed primary fetch the run stops, the record is failed and
\* its results hold the message with the cause, and nothing was attached
FetchFailureRecorded ==
    \A a \in DOMAIN db :
        FetchFailed(a) =>
            /\ db[a].status = "failed"
            /\ db[a].results_data =
                 [error |-> "Failed to fetch URL: " \o PipelinePages[db[a].url].fetch,
                  url |-> db[a].url]
            /\ tasks[a].suggestions = <<>>
            /\ tasks[a].fetches = 1

\* a timeout of the primary fetch, recorded
FetchFailureWitness ==
    \E a \in DOMAIN db :
        /\ FetchFailed(a)
        /\ PipelinePages[db[a].url].fetch = "Timeout"
        /\ db[a].status = "failed"

(***************************************************************************)
(* SpecFeatures: the three scoring functions applied to a feature set      *)
(* given directly, as the report and the suggestion engine do with a       *)
(* stored one.                                                             *)
(***************************************************************************)
\* the feature set of the empty page
BaseFeatures == analyze_url(BasePage).result

\* lengths on both sides of every band of the title and the description
TitleLengths == {9, 19, 20, 29, 30, 60, 61, 70, 71}
MetaLengths == {9, 99, 100, 119, 120, 160, 161, 180, 181}

\* <<img_count, missing_alt>>
ImageCounts ==
    {<<0, 0>>, <<1, 0>>, <<1, 1>>, <<3, 0>>, <<3, 1>>, <<3, 2>>,
     <<10, 0>>, <<10, 3>>, <<10, 10>>}

SeoFeatures ==
    {With(BaseFeatures,
          [has_title |-> ht, title |-> t, has_meta_description |-> hm,
           meta_description |-> m, h1_count |-> h,
           img_count |-> im[1], missing_alt |-> im[2],
           canonical_present |-> pr, robots_meta |-> pr,
           sitemap_available |-> pr, robots_available |-> pr]) :
        ht \in BOOLEAN, t \in TitleLengths, hm \in BOOLEAN, m \in MetaLengths,
        h \in 0..MaxHeadings, im \in ImageCounts, pr \in BOOLEAN}

PresenceFeatures ==
    {With(BaseFeatures,
          [h1_count |-> h, img_count |-> im[1], missing_alt |-> im[2],
           canonical_present |-> pr[1], robots_meta |-> pr[2],
           sitemap_available |-> pr[3], robots_available |-> pr[4]]) :
        h \in 0..MaxHeadings, im \in {<<0, 0>>, <<3, 0>>, <<10, 10>>},
        pr \in BOOLEAN \X BOOLEAN \X BOOLEAN \X BOOLEAN}

\* sizes, in hundredths of a KB, on both sides of the thresholds in ts
Sizes(ts) == {0} \cup {KB(t) : t \in ts} \cup {KB(t) + 1 : t \in ts}

PageSizes == Sizes({500, 1000, 2000}) \cup {KB(2500)}
JsSizes == Sizes({200, 300, 500}) \cup {KB(600)}
CssSizes == Sizes({50, 100, 200})
ImageSizes == Sizes({100, 200, 300})

PerformanceFeatures ==
    {With(BaseFeatures,
          [page_size_kb |-> pg, js_size_kb |-> js, css_size_kb |-> css,
           largest_image_kb |-> im]) :
        pg \in PageSizes, js \in JsSizes, css \in CssSizes, im \in ImageSizes}

SecurityFeatures ==
    {With(BaseFeatures, [security_headers |-> [h \in SecurityHeaderNames |-> h \in hs]]) :
        hs \in SUBSET SecurityHeaderNames}

FeatureSets ==
    SeoFeatures \cup PresenceFeatures \cup PerformanceFeatures \cup SecurityFeatures

InitFeatures ==
    /\ pc = "start"
    /\ \/ audit_data \in FeatureSets
       \/ audit_data = <<>>
    /\ web = BasePage
    /\ ret = NotRun
    /\ loc = NoLocals
    /\ futures = <<>>
    /\ probed = {}
    /\ order = <<>>
    /\ service = NoService
    /\ out = NotSuggested
    /\ PipelineIdle

\* analyze_url lines 395-398, on a feature set that is already there
ScoreFeatures ==
    /\ pc = "start"
    /\ ret' = Returned(WithScores(audit_data))
    /\ pc' = "done"
    /\ UNCHANGED <<web, loc, futures, probed, order, suggest_vars, pipeline_vars>>

NextFeatures == ScoreFeatures

SpecFeatures == InitFeatures /\ [][NextFeatures]_vars

SizeKeys == {"page_size_kb", "js_size_kb", "css_size_kb", "largest_image_kb"}
SizeGrid == PageSizes \cup JsSizes \cup CssSizes \cup ImageSizes

\* d with d[key] = value
Replaced(d, key, value) ==
    [k \in DOMAIN d \cup {key} |-> IF k = key THEN value ELSE d[k]]

\* C11: raising one of the four sizes while the other three stay as they
\* are never raises the performance score
PerformanceMonotone ==
    pc = "done" =>
        \A k \in SizeKeys : \A v \in SizeGrid :
            v >= Get(audit_data, k, 0) =>
                calculate_performance_score(Replaced(audit_data, k, v))
                    <= ret.result.score_performance

\* a scored feature set in which each of the four sizes can still be
\* raised into a higher deduction, the score falling each time
PerformanceMonotoneWitness ==
    /\ pc = "done"
    /\ \A k \in SizeKeys :
        /\ Get(audit_data, k, 0) > 0
        /\ \E v \in SizeGrid :
            /\ v > Get(audit_data, k, 0)
            /\ calculate_performance_score(Replaced(audit_data, k, v))
                 < ret.result.score_performance

\* d with n images, m of them without alt text
WithImages(d, n, m) == Replaced(Replaced(d, "img_count", n), "missing_alt", m)

\* C12: a feature set without images gets nothing from the alt-text term:
\* it scores what it would with images that all lack alt text, and 15 less
\* than with at least one image, all with alt text
NoImagesNoAltPoints ==
    (pc = "done" /\ Get(audit_data, "img_count", 0) = 0) =>
        \A n \in {1, 3, 10} :
            /\ calculate_seo_score(WithImages(audit_data, n, n)) = ret.result.score_seo
            /\ calculate_seo_score(WithImages(audit_data, n, 0))
                 = ret.result.score_seo + 15

\* a feature set without images that has every other term at its maximum
NoImagesWitness ==
    /\ pc = "done"
    /\ "img_count" \in DOMAIN audit_data
    /\ audit_data.img_count = 0
    /\ ret.result.score_seo = 85
    /\ calculate_seo_score(WithImages(audit_data, 1, 0)) = 100

\* points by band: best inside lo..hi, middle inside the margins
\* near_lo..lo and hi..near_hi, low elsewhere
BandPoints(n, near_lo, lo, hi, near_hi, best, middle, low) ==
    IF lo <= n /\ n <= hi THEN best
    ELSE IF (near_lo <= n /\ n < lo) \/ (hi < n /\ n <= near_hi) THEN middle
    ELSE low

Points(present, points) == IF present THEN points ELSE 0

\* the eight terms, each from the fields it depends on alone
TermsSum(d) ==
      Points(Get(d, "has_title", FALSE),
             BandPoints(Get(d, "title", 0), 20, 30, 60, 70, 20, 10, 5))
    + Points(Get(d, "has_meta_description", FALSE),
             BandPoints(Get(d, "meta_description", 0), 100, 120, 160, 180, 15, 8, 3))
    + (CASE Get(d, "h1_count", 0) = 1 -> 15
         [] Get(d, "h1_count", 0) > 1 -> 5
         [] OTHER -> 0)
    + (IF Get(d, "img_count", 0) = 0 THEN 0
       ELSE (15 * (d.img_count - Get(d, "missing_alt", 0))) \div d.img_count)
    + Points(Get(d, "canonical_present", FALSE), 10)
    + Points(Get(d, "robots_meta", FALSE), 10)
    + Points(Get(d, "sitemap_available", FALSE), 10)
    + Points(Get(d, "robots_available", FALSE), 5)

\* C13: the SEO score is the sum of the eight terms
SeoScoreIsSum ==
    pc = "done" => ret.result.score_seo = TermsSum(audit_data)

\* no title, no description, two h1, ten images none with alt text, and
\* the canonical tag and robots.txt present: 5 + 10 + 5
SeoScoreWitness ==
    /\ pc = "done"
    /\ audit_data # <<>>
    /\ ~audit_data.has_title
    /\ ~audit_data.has_meta_description
    /\ audit_data.h1_count = 2
    /\ audit_data.img_count = 10
    /\ audit_data.missing_alt = 10
    /\ audit_data.canonical_present
    /\ ~audit_data.robots_meta
    /\ ~audit_data.sitemap_available
    /\ audit_data.robots_available
    /\ ret.result.score_seo = 20

\* the deduction of the highest of three rising thresholds (in KB) that the
\* size exceeds
Deduction(size, thresholds, deductions) ==
    IF size > KB(thresholds[3]) THEN deductions[3]
    ELSE IF size > KB(thresholds[2]) THEN deductions[2]
    ELSE IF size > KB(thresholds[1]) THEN deductions[1]
    ELSE 0

DeductionsSum(d) ==
      Deduction(Get(d, "page_size_kb", 0), <<500, 1000, 2000>>, <<10, 20, 30>>)
    + Deduction(Get(d, "js_size_kb", 0), <<200, 300, 500>>, <<8, 15, 25>>)
    + Deduction(Get(d, "css_size_kb", 0), <<50, 100, 200>>, <<6, 12, 20>>)
    + Deduction(Get(d, "largest_image_kb", 0), <<100, 200, 300>>, <<5, 10, 15>>)

\* C14: the performance score is 100 minus one deduction per category, the
\* one of the highest threshold exceeded
PerformanceIsDeductions ==
    pc = "done" => ret.result.score_performance = 100 - DeductionsSum(audit_data)

\* page_size_kb = 2500 and js_size_kb = 600 with no stylesheet and no image
\* deduction: 45
PerformanceWitness ==
    /\ pc = "done"
    /\ audit_data # <<>>
    /\ audit_data.page_size_kb = KB(2500)
    /\ audit_data.js_size_kb = KB(600)
    /\ audit_data.css_size_kb = KB(50)
    /\ audit_data.largest_image_kb = KB(100)
    /\ ret.result.score_performance = 45

\* the headers a feature set marks present
PresentHeaders(d) ==
    LET headers == Get(d, "security_headers", <<>>)
    IN  {h \in {"Content-Security-Policy", "X-Frame-Options",
                "X-Content-Type-Options", "Referrer-Policy",
                "Strict-Transport-Security"} : Get(headers, h, FALSE)}

\* C15: the security score is 20 times the number of the five headers
\* marked present
SecurityIsCount ==
    pc = "done" =>
        ret.result.score_security = 20 * Cardinality(PresentHeaders(audit_data))

\* all five headers present: 100
SecurityWitness ==
    /\ pc = "done"
    /\ Cardinality(PresentHeaders(audit_data)) = 5
    /\ ret.result.score_security = 100

\* C16: every reference of a fetched page, and the two probes of the site
\* root, are resolved against the final URL of the fetch
ResolvedAgainstFinalUrl ==
    probed # {} => loc.url = web.final_url

\* C17: the scores stored with a completed audit are the ones the three
\* scoring functions give for the feature set in its results
ScoresRecomputable ==
    \A a \in DOMAIN db :
        db[a].status = "completed" =>
            LET d == db[a].results_data
            IN  /\ calculate_seo_score(d) = d.score_seo
                /\ calculate_performance_score(d) = d.score_performance
                /\ calculate_security_score(d) = d.score_security
                /\ db[a].score_seo = d.score_seo
                /\ db[a].score_performance = d.score_performance
                /\ db[a].score_security = d.score_security

\* a completed audit none of whose scores is at an end of the scale
ScoresRecomputableWitness ==
    \E a \in DOMAIN db :
        /\ db[a].status = "completed"
        /\ db[a].score_seo = 25
        /\ db[a].score_performance = 90
        /\ db[a].score_security = 40

\* C18: for one audit the generator runs at most once, whether for the run
\* or for a request, and every request returns the one generated set
SuggestionsGeneratedOnce ==
    served.outcome = "ok" =>
        /\ served.generated =>
              (served.cached = <<>> /\ tasks[served.audit].suggestions = <<>>)
        /\ tasks[served.audit].suggestions # <<>> =>
              served.value = tasks[served.audit].suggestions
        /\ served.cached # <<>> => served.value = served.cached[1]

\* GET /audit-status/{audit_id}, main.py lines 187-199, for a record that
\* exists: what a reader is told
get_audit_status(a) ==
    [status |-> db[a].status, has_results |-> ~IsNone(db[a].results_data)]

\* C19: a reader never sees results on a pending or processing record, nor
\* a completed record without the feature set and the three scores
ObservableRecords ==
    \A a \in DOMAIN db :
        /\ get_audit_status(a).status \in {"pending", "processing"} =>
              ~get_audit_status(a).has_results
        /\ get_audit_status(a).status = "completed" =>
              /\ get_audit_status(a).has_results
              /\ DOMAIN BaseFeatures \subseteq DOMAIN db[a].results_data
              /\ {"score_seo", "score_performance", "score_security"}
                   \subseteq DOMAIN db[a].results_data

\* the analysis has returned and the record, not yet written, still shows
\* processing without results
ObservableRecordsWitness ==
    \E a \in DOMAIN db :
        /\ tasks[a].pc = "store"
        /\ ~tasks[a].results.raised
        /\ get_audit_status(a) = [status |-> "processing", has_results |-> FALSE]

\* C20: a run scores and returns only when every submitted link probe has
\* produced its outcome and the outcome has been counted
FanInBeforeScoring ==
    pc \in {"score", "done"} =>
        /\ \A j \in DOMAIN futures : futures[j].state = "consumed"
        /\ Len(order) = Len(futures)
        /\ Len(futures) <= 40
        /\ loc.working_links + loc.broken_links = Len(futures)

\* a run that returned after three probes completed out of their order of
\* submission
FanInWitness ==
    /\ pc = "done"
    /\ ~ret.raised
    /\ Len(futures) = 3
    /\ order = <<3, 1, 2>>

\* the results blob without the suggestion set
WithoutSuggestions(d) == [k \in DOMAIN d \ {"ai_suggestions"} |-> d[k]]

\* C21: once a record is completed no step changes the features and scores
\* stored for it; only the suggestion set may be added to the blob
CompletedResultsKept ==
    [][\A a \in DOMAIN db :
          db[a].status = "completed" =>
              /\ WithoutSuggestions(db'[a].results_data)
                   = WithoutSuggestions(db[a].results_data)
              /\ db'[a].score_seo = db[a].score_seo
              /\ db'[a].score_performance = db[a].score_performance
              /\ db'[a].score_security = db[a].score_security]_vars

\* C29: a request for the suggestions of an audit that is not completed
\* neither runs the generator nor writes a suggestion set into the record
SuggestionsOnlyWhenCompleted ==
    [][\A a \in DOMAIN db :
          (served' # served /\ served'.audit = a /\ db[a].status # "completed") =>
              /\ ~served'.generated
              /\ db'[a] = db[a]
              /\ attached'[a] = attached[a]]_vars

TitleHasText(page) == page.title.tag = "text" /\ page.title.len > 0

\* C23: has_title is true exactly when the title has text left after
\* trimming, and a page without such a title gets nothing for its title
TitleNeedsText ==
    (pc = "done" /\ ~ret.raised) =>
        /\ ret.result.has_title <=> TitleHasText(web)
        /\ ~TitleHasText(web) => SeoTitleTerm(ret.result) = 0

(***************************************************************************)
(* SpecLinks: the link sample of analyze_url (lines 312-322) on pages with *)
(* more anchors than the limit.                                            *)
(***************************************************************************)
MaxRepeats == 2
MaxDistinct == 43

\* e anchors with an empty href, then r anchors that repeat the first URL
\* of the page, then n anchors with the URLs 1..n
AnchorsWith(e, r, n) ==
    [i \in 1..(e + r + n) |-> IF i <= e THEN 0 ELSE IF i <= e + r THEN 1 ELSE i - e - r]

LongPages ==
    {With(BasePage, [anchors |-> AnchorsWith(e, r, n)]) :
        e \in 0..1, r \in 0..MaxRepeats, n \in 1..MaxDistinct}

InitLinks ==
    /\ web \in LongPages
    /\ pc = "start"
    /\ ret = NotRun
    /\ loc = NoLocals
    /\ futures = <<>>
    /\ probed = {}
    /\ order = <<>>
    /\ SuggestIdle
    /\ PipelineIdle

\* lines 312-322
CollectSample ==
    /\ pc = "start"
    /\ loc' = [loc EXCEPT !.link_urls = link_urls(web)]
    /\ pc' = "done"
    /\ UNCHANGED <<web, ret, futures, probed, order, suggest_vars, pipeline_vars>>

NextLinks == CollectSample

SpecLinks == InitLinks /\ [][NextLinks]_vars

\* the URLs of the anchors of a page that have an href
DistinctUrls(page) == {page.anchors[i] : i \in DOMAIN page.anchors} \ {0}

\* C24: the sample holds no URL twice and at most 40 URLs, and it holds 40
\* when the page has 40 distinct URLs or more
SampleIsDedupThenCap ==
    pc = "done" =>
        /\ \A i, j \in DOMAIN loc.link_urls :
              loc.link_urls[i] = loc.link_urls[j] => i = j
        /\ Len(loc.link_urls) <= 40
        /\ Cardinality(DistinctUrls(web)) >= 40 => Len(loc.link_urls) = 40

\* 1 when the condition holds, 0 otherwise
Count(condition) == IF condition THEN 1 ELSE 0

\* the number of items the rules give each category: seven two-way rules
\* and six unconditional items give one each; the h1 rule gives none for
\* exactly one h1, the missing-alt rule none when no alt text is missing,
\* the X-Frame-Options rule none unless that header and
\* Content-Security-Policy are both absent
RuleCounts(d) ==
    [seo         |-> 2 + Count(Get(d, "h1_count", 0) # 1)
                       + Count(Get(d, "missing_alt", 0) > 0),
     performance |-> 3,
     security    |-> 2 + Count(~HeaderPresent(d, "X-Frame-Options")
                               /\ ~HeaderPresent(d, "Content-Security-Policy")),
     metadata    |-> 2,
     content     |-> 2,
     schema      |-> 2,
     general     |-> 3]

FirstAnchors(page) == {i \in DOMAIN page.anchors : i <= 40}

\* the place of the first anchor of a page that holds URL u
FirstPlace(page, u) ==
    CHOOSE i \in DOMAIN page.anchors :
        /\ page.anchors[i] = u
        /\ \A j \in DOMAIN page.anchors : page.anchors[j] = u => i <= j

\* C24, as amended: the sample is the URLs of the first 40 anchors, each
\* once, in the order of their first anchors
SampleIsCapThenDedup ==
    pc = "done" =>
        /\ \A i, j \in DOMAIN loc.link_urls :
              loc.link_urls[i] = loc.link_urls[j] => i = j
        /\ Len(loc.link_urls) <= 40
        /\ {loc.link_urls[i] : i \in DOMAIN loc.link_urls}
             = {web.anchors[i] : i \in FirstAnchors(web)} \ {0}
        /\ \A i, j \in DOMAIN loc.link_urls :
              i < j => FirstPlace(web, loc.link_urls[i]) < FirstPlace(web, loc.link_urls[j])

\* a page with 40 distinct URLs and a repeated anchor among its first 40:
\* the sample holds 39
SampleWitness ==
    /\ pc = "done"
    /\ Cardinality(DistinctUrls(web)) >= 40
    /\ web.anchors[1] = web.anchors[2]
    /\ Len(loc.link_urls) = 39

\* the package is missing or no key is set
NotConfigured == ~service.package \/ ~service.api_key

\* C25: a call of generate_ai_suggestions calls the external service once
\* at most, and not at all when it is not configured: it then returns the
\* fallback for the feature set
AtMostOneExternalCall ==
    pc = "done" =>
        /\ out.calls \in {0, 1}
        /\ NotConfigured =>
              /\ out.calls = 0
              /\ ~out.raised
              /\ out.path = "fallback"
              /\ out.value = _generate_fallback_suggestions(audit_data)

\* the package is installed and no key is set, for a real feature set
NoKeyWitness ==
    /\ pc = "done"
    /\ service.package
    /\ ~service.api_key
    /\ ~IsEmpty(audit_data)
    /\ out.calls = 0
    /\ out.path = "fallback"

\* an entry with an issue and a suggestion and nothing else
IsPair(entry) == DOMAIN entry = {"issue", "suggestion"}

\* the entries of a list of the external answer that are objects or strings
Kept(items) == {i \in DOMAIN items : items[i].type \in {"dict", "str"}}

\* the place an entry of the answer has among the kept entries
PlaceAmongKept(items, i) == Cardinality({k \in Kept(items) : k <= i})

\* C26, as stated: every entry returned is a pair, and a string of the
\* external answer is found, doubled, at the place it had in the answer
StringsKeepTheirPlace ==
    (pc = "done" /\ ~out.raised) =>
        /\ \A c \in CategorySet : \A i \in DOMAIN out.value[c] : IsPair(out.value[c][i])
        /\ out.path = "external" =>
              \A c \in CategorySet : \A i \in DOMAIN service.cats[c].items :
                  service.cats[c].items[i].type = "str" =>
                      /\ i \in DOMAIN out.value[c]
                      /\ out.value[c][i] = Pair(service.cats[c].items[i].issue,
                                                service.cats[c].items[i].issue)

\* C26, as amended: every entry returned is a pair, and a string of the
\* external answer is found, doubled, at the place it has among the entries
\* of the answer that are objects or strings
StringsKeepTheirOrder ==
    (pc = "done" /\ ~out.raised) =>
        /\ \A c \in CategorySet : \A i \in DOMAIN out.value[c] : IsPair(out.value[c][i])
        /\ out.path = "external" =>
              \A c \in CategorySet : \A i \in DOMAIN service.cats[c].items :
                  service.cats[c].items[i].type = "str" =>
                      /\ PlaceAmongKept(service.cats[c].items, i) \in DOMAIN out.value[c]
                      /\ out.value[c][PlaceAmongKept(service.cats[c].items, i)]
                           = Pair(service.cats[c].items[i].issue,
                                  service.cats[c].items[i].issue)

\* an answer with a string between two entries that are neither objects nor
\* strings: the string comes first in the result
StringsWitness ==
    /\ pc = "done"
    /\ out.path = "external"
    /\ \E c \in CategorySet :
        /\ Len(service.cats[c].items) = 3
        /\ service.cats[c].items[2].type = "str"
        /\ out.value[c][1] = Pair(service.cats[c].items[2].issue,
                                  service.cats[c].items[2].issue)

\* the entries of a category after normalisation, as the supplement finds
\* them
Normalized(c) == _normalize_suggestions(service.cats[c])

\* the items the fallback has for a category that a list does not hold, in
\* the order of the fallback
Missing(list, c) ==
    SelectSeq(_generate_fallback_suggestions(audit_data)[c],
              LAMBDA item : \A k \in DOMAIN list : list[k] # item)

\* C27: the supplement leaves a category of two entries or more as it is;
\* a shorter one keeps its entries in front, in order, followed by the
\* fallback items it does not hold yet, up to two entries in all
SupplementOnlyShort ==
    (pc = "done" /\ out.path = "external") =>
        \A c \in CategorySet :
            IF Len(Normalized(c)) >= 2
            THEN out.value[c] = Normalized(c)
            ELSE /\ Len(out.value[c]) = 2
                 /\ out.value[c] =
                      Normalized(c) \o SubSeq(Missing(Normalized(c), c), 1,
                                              2 - Len(Normalized(c)))

\* an answer holding, for one category, the first item of the fallback
\* alone: the second item of the fallback is appended and nothing more,
\* while the categories with two entries are as they were sent
SupplementWitness ==
    /\ pc = "done"
    /\ out.path = "external"
    /\ \E c \in CategorySet :
        /\ Normalized(c) = <<_generate_fallback_suggestions(audit_data)[c][1]>>
        /\ out.value[c] = <<_generate_fallback_suggestions(audit_data)[c][1],
                            _generate_fallback_suggestions(audit_data)[c][2]>>
    /\ \E c \in CategorySet :
        /\ Len(Normalized(c)) = 2
        /\ out.value[c] = Normalized(c)

(***************************************************************************)
(* SpecLegacy: POST /fix_suggestions (main.py lines 294-383) with the      *)
(* audit results in hand, and get_ai_fix_suggestions behind it             *)
(* (ai_suggestions.py lines 97-167). A text is the length of the text.     *)
(***************************************************************************)
\* results.get(key, default) for every key of a group
Group(results, defaults) ==
    [k \in DOMAIN defaults |-> Get(results, k, defaults[k])]

\* lines 20-94
format_audit_data_for_ai(results) ==
    [overview |-> Group(results,
        [url |-> 0, title |-> 9, score_seo |-> 0, score_performance |-> 0,
         score_security |-> 0, broken_links |-> 0, working_links |-> 0]),
     seo |-> Group(results,
        [has_title |-> FALSE, title_length |-> 0, title_status |-> "",
         has_meta_description |-> FALSE, meta_length |-> 0, meta_status |-> "",
         meta_description |-> 0, h1_count |-> 0, h2_count |-> 0, h3_count |-> 0,
         canonical_present |-> FALSE, robots_meta |-> FALSE,
         sitemap_available |-> FALSE, robots_available |-> FALSE,
         img_count |-> 0, missing_alt |-> 0]),
     performance |-> Group(results,
        [page_size_kb |-> 0, js_count |-> 0, js_size_kb |-> 0, css_count |-> 0,
         css_size_kb |-> 0, largest_image_kb |-> 0, largest_image_url |-> 0,
         external_scripts |-> 0, basic_lcp_element |-> 12]),
     security |-> Group(results, [security_headers |-> <<>>, score_security |-> 0]),
     images |-> Group(results,
        [img_count |-> 0, missing_alt |-> 0, largest_image_kb |-> 0])]

LegacyKeys ==
    {"seo_fixes", "performance_fixes", "security_fixes", "metadata_fixes",
     "general_recommendations"}

\* what the function returns or raises
FixReturned(value) == [raised |-> FALSE, error |-> "", value |-> value]
FixRaised(error) == [raised |-> TRUE, error |-> error, value |-> <<>>]

\* the function falling back on lists of its own instead of raising
get_ai_fix_suggestions_recovering(payload, openai) ==
    FixReturned([k \in LegacyKeys |-> [kind |-> "list", items |-> <<"advice">>]])

\* lines 97-167
get_ai_fix_suggestions(payload, openai) ==
    IF ~openai.package THEN FixRaised("ValueError")
    ELSE IF ~openai.api_key THEN FixRaised("ValueError")
    ELSE IF openai.call = "raises" THEN FixRaised("Exception")
    ELSE IF openai.body = "nonjson" THEN FixRaised("ValueError")
    ELSE IF openai.body = "notdict" THEN FixRaised("Exception")
    ELSE FixReturned([k \in LegacyKeys |->
            IF openai.cats[k].kind = "missing"
            THEN [kind |-> "list", items |-> <<>>]
            ELSE openai.cats[k]])

\* the service as the legacy path may find it: the answer holds, for each
\* key, nothing, null, or a list of strings
LegacyServices ==
    {[package |-> pk, api_key |-> ak, call |-> cl, body |-> bd,
      cats |-> [k \in LegacyKeys |-> IF k = key THEN one ELSE rest]] :
        pk \in BOOLEAN, ak \in BOOLEAN, cl \in {"ok", "raises"},
        bd \in {"dict", "nonjson", "notdict"}, key \in LegacyKeys,
        one \in {[kind |-> "missing", items |-> <<>>],
                 [kind |-> "null", items |-> <<>>],
                 [kind |-> "list", items |-> <<>>]},
        rest \in {[kind |-> "list", items |-> <<"advice", "more advice">>]}}

InitLegacy ==
    /\ pc = "start"
    /\ AnalysisIdle
    /\ \/ audit_data = ErrorBlob("Failed to fetch URL: Timeout", 1)
       \/ \E w \in SecurityPages : audit_data = analyze_url(w).result
    /\ service \in LegacyServices
    /\ out = NotSuggested
    /\ PipelineIdle

\* main.py lines 369-383: the payload, the call, and the answer of the
\* endpoint: 200 with the lists, 400 for a ValueError, 500 for any other
\* exception
fix_suggestions ==
    /\ pc = "start"
    /\ LET made == get_ai_fix_suggestions(format_audit_data_for_ai(audit_data), service)
       IN  out' = IF ~made.raised
                  THEN [status_code |-> 200, content |-> made.value]
                  ELSE IF made.error = "ValueError"
                  THEN [status_code |-> 400, content |-> <<>>]
                  ELSE [status_code |-> 500, content |-> <<>>]
    /\ pc' = "done"
    /\ UNCHANGED <<analysis_vars, audit_data, service, pipeline_vars>>

NextLegacy == fix_suggestions

SpecLegacy == InitLegacy /\ [][NextLegacy]_vars

\* the external attempt of the legacy path cannot succeed
LegacyFailure ==
    \/ NotConfigured
    \/ service.call = "raises"
    \/ service.body # "dict"

\* C28, as stated: with no credential, a failing call or a malformed
\* answer the legacy path still answers with lists for its categories,
\* none of them empty
LegacyFallsBack ==
    (pc = "done" /\ LegacyFailure) =>
        /\ out.status_code = 200
        /\ DOMAIN out.content = LegacyKeys
        /\ \A k \in LegacyKeys :
              out.content[k].kind = "list" /\ out.content[k].items # <<>>

\* C28, as amended: the legacy path has no fallback; a missing package or
\* key and an answer that is no JSON end in status 400, a failing call and
\* an answer that is no object in status 500, and only an answer that is
\* an object gives 200 with the five keys
LegacyPropagates ==
    pc = "done" =>
        /\ NotConfigured => out.status_code = 400
        /\ (~NotConfigured /\ service.call = "raises") => out.status_code = 500
        /\ (~NotConfigured /\ service.call = "ok" /\ service.body = "nonjson")
              => out.status_code = 400
        /\ (~NotConfigured /\ service.call = "ok" /\ service.body = "notdict")
              => out.status_code = 500
        /\ ~LegacyFailure =>
              (out.status_code = 200 /\ DOMAIN out.content = LegacyKeys)
        /\ LegacyFailure => out.content = <<>>

\* a request served with the package installed and no key set
LegacyWitness ==
    /\ pc = "done"
    /\ service.package
    /\ ~service.api_key
    /\ out.status_code = 400
    /\ out.content = <<>>

\* the four sizes of a feature set are all above their highest threshold
AllSizesHighest(d) ==
    /\ Get(d, "page_size_kb", 0) > KB(2000)
    /\ Get(d, "js_size_kb", 0) > KB(500)
    /\ Get(d, "css_size_kb", 0) > KB(200)
    /\ Get(d, "largest_image_kb", 0) > KB(300)

\* C30: the performance score is never below 10, and it is 10 exactly when
\* the four sizes are all above their highest threshold
PerformanceFloorUnreached ==
    pc = "done" =>
        /\ ret.result.score_performance \in 10..100
        /\ ret.result.score_performance = 10 <=> AllSizesHighest(audit_data)

\* the four sizes just above their highest thresholds: 10
PerformanceFloorWitness ==
    /\ pc = "done"
    /\ audit_data # <<>>
    /\ audit_data.page_size_kb = KB(2000) + 1
    /\ audit_data.js_size_kb = KB(500) + 1
    /\ audit_data.css_size_kb = KB(200) + 1
    /\ audit_data.largest_image_kb = KB(300) + 1
    /\ ret.result.score_performance = 10

====
